---- MODULE Spec2Model ----
(***************************************************************************)
(* Model of the bank-statement categorisation scripts                      *)
(* (bov_categorization.py, pdf_statement_processor.py).                    *)
(*                                                                         *)
(* A Python str is modelled as a sequence of one-character strings, so     *)
(* that stripping, searching and parsing are computed character by         *)
(* character as the code (and the re / float / datetime library calls it   *)
(* makes) computes them.                                                   *)
(***************************************************************************)
EXTENDS Integers, Sequences, FiniteSets, TLC

VARIABLES
    num_in,     \* parse_number: the argument val (a cell: str or float)
    num_out,    \* parse_number: the returned float, or NoResult before the call
    date_in,    \* parse_date_smart: the argument date_str
    date_out,   \* parse_date_smart: the outcome, or NoResult before the call
    det_in,     \* get_transaction_type: the argument detail
    det_out,    \* get_transaction_type: the returned label, or NoResult
    rows,       \* the table read from the CSV file: rows of Date, Detail, Amount cells
    df,         \* the DataFrame returned by extract_transactions_from_csv
    csv_failed, \* extract_transactions_from_csv caught an exception and reported it
    incoming,   \* process_transactions: the incoming partition
    outgoing,   \* process_transactions: the outgoing partition
    pc,         \* progress of a run: "read", "extracted", "processed" or "raised"; of main: "start", "exited"
    ext_in,     \* extract_invoice / extract_counterparty: the argument detail
    inv_out,    \* extract_invoice: the returned text, or NoResult before the call
    cp_out,     \* extract_counterparty: the returned text, or NoResult
    file,       \* main: the CSV file at the input path (exists, marker, columns)
    exit_code,  \* main: the exit status of the process, or NoResult while it runs
    written,    \* main: the output spreadsheet was written
    lines,      \* extract_transactions_from_pdf: the lines of the text of the document
    cursor,     \* the index of the line that the loop reads next (i + 1)
    in_transactions,      \* the cursor is inside a transaction block
    current_transaction,  \* the transaction started by the last date line, or None
    previous_line,        \* the pending line, "" if none
    transactions,         \* the transactions flushed so far
    result      \* the rows returned by extract_transactions_from_pdf, or NoResult

numVars == <<num_in, num_out>>
dateVars == <<date_in, date_out>>
detVars == <<det_in, det_out>>
procVars == <<rows, df, csv_failed, incoming, outgoing, pc>>
extVars == <<ext_in, inv_out, cp_out>>
mainVars == <<file, exit_code, written>>
pdfVars == <<lines, cursor, in_transactions, current_transaction, previous_line,
             transactions, result>>
vars == <<num_in, num_out, date_in, date_out, det_in, det_out,
          rows, df, csv_failed, incoming, outgoing, pc,
          ext_in, inv_out, cp_out, file, exit_code, written,
          lines, cursor, in_transactions, current_transaction, previous_line,
          transactions, result>>

NoResult == [k |-> "pending"]

(***************************************************************************)
(* Generic string helpers (str methods used by the code).                  *)
(***************************************************************************)
RECURSIVE SeqsUpTo(_, _)
SeqsUpTo(A, n) ==
    IF n = 0 THEN {<<>>}
    ELSE LET shorter == SeqsUpTo(A, n - 1)
         IN  shorter \cup {Append(s, c) : s \in {t \in shorter : Len(t) = n - 1}, c \in A}

\* characters matched by \s and removed by str.strip()
\* the element of a one-element set; The({e(x) : x \in {v}}) is e(v) with v
\* computed once, as an assignment to a local variable is
The(S) == CHOOSE x \in S : TRUE

Whitespace == {" ", "\t", "\n", "\r"}

Digits == {"0", "1", "2", "3", "4", "5", "6", "7", "8", "9"}
\* characters for which str.isdigit() is true and that int() and [0-9] do not
\* take (superscripts and the like); one of them stands for all
NonDecimalDigits == {"²"}

DigitVal(c) ==
    CASE c = "0" -> 0 [] c = "1" -> 1 [] c = "2" -> 2 [] c = "3" -> 3
      [] c = "4" -> 4 [] c = "5" -> 5 [] c = "6" -> 6 [] c = "7" -> 7
      [] c = "8" -> 8 [] c = "9" -> 9

RECURSIVE LStrip(_, _)
LStrip(s, cs) ==
    IF s # <<>> /\ Head(s) \in cs THEN LStrip(Tail(s), cs) ELSE s

RECURSIVE RStrip(_, _)
RStrip(s, cs) ==
    IF s # <<>> /\ s[Len(s)] \in cs THEN RStrip(SubSeq(s, 1, Len(s) - 1), cs) ELSE s

\* str.strip(chars)
Strip(s, cs) == RStrip(LStrip(s, cs), cs)

\* removes every character of cs (re.sub of a character class, str.replace of one char)
RemoveChars(s, cs) == SelectSeq(s, LAMBDA c : c \notin cs)

StartsWith(s, c) == s # <<>> /\ s[1] = c
EndsWith(s, c) == s # <<>> /\ s[Len(s)] = c

AllIn(s, cs) == \A i \in 1..Len(s) : s[i] \in cs

RECURSIVE IntOf(_)
IntOf(ds) ==
    IF ds = <<>> THEN 0 ELSE 10 * IntOf(SubSeq(ds, 1, Len(ds) - 1)) + DigitVal(ds[Len(ds)])

(***************************************************************************)
(* Floats.  A finite float is the decimal m / 10^e with m not divisible by *)
(* 10 (zero is m = 0, e = 0), so equal values are equal records; the       *)
(* non-finite floats are nan, inf and -inf.                                *)
(***************************************************************************)
RECURSIVE Num(_, _)
Num(m, e) ==
    IF m = 0 THEN [k |-> "num", m |-> 0, e |-> 0]
    ELSE IF m % 10 = 0 THEN Num(m \div 10, e - 1)
    ELSE [k |-> "num", m |-> m, e |-> e]
NaN == [k |-> "nan"]
Inf == [k |-> "inf", neg |-> FALSE]
NegInf == [k |-> "inf", neg |-> TRUE]
Zero == Num(0, 0)

\* unary minus on a float
Neg(f) ==
    CASE f.k = "num" -> [k |-> "num", m |-> 0 - f.m, e |-> f.e]
      [] f.k = "inf" -> [k |-> "inf", neg |-> ~f.neg]
      [] f.k = "nan" -> f

IsFinite(f) == f.k = "num"
\* f >= 0 and f < 0 as Python (and pandas) compare floats: both are false for nan
GeZero(f) == (f.k = "num" /\ f.m >= 0) \/ (f.k = "inf" /\ ~f.neg)
LtZero(f) == (f.k = "num" /\ f.m < 0) \/ (f.k = "inf" /\ f.neg)

\* a cell handed to parse_number: a str, or a float (pandas gives float for a
\* missing cell and for a column it inferred to be numeric)
StrCell(s) == [t |-> "str", s |-> s]
FloatCell(f) == [t |-> "float", f |-> f]

(***************************************************************************)
(* float(str): ValueError is modelled as the value FloatError.            *)
(* Grammar: [+] ( "inf" | "infinity" | "nan" | digits [. digits] [e [+] digits] ) *)
(* with at least one mantissa digit.                                       *)
(***************************************************************************)
FloatError == [k |-> "ValueError"]

UpperLetters ==
    <<"A", "B", "C", "D", "E", "F", "G", "H", "I", "J", "K", "L", "M",
      "N", "O", "P", "Q", "R", "S", "T", "U", "V", "W", "X", "Y", "Z">>
LowerLetters ==
    <<"a", "b", "c", "d", "e", "f", "g", "h", "i", "j", "k", "l", "m",
      "n", "o", "p", "q", "r", "s", "t", "u", "v", "w", "x", "y", "z">>

Lower1(c) ==
    IF \E i \in 1..26 : UpperLetters[i] = c
    THEN LowerLetters[CHOOSE i \in 1..26 : UpperLetters[i] = c] ELSE c
Upper1(c) ==
    IF \E i \in 1..26 : LowerLetters[i] = c
    THEN UpperLetters[CHOOSE i \in 1..26 : LowerLetters[i] = c] ELSE c

\* str.lower() and str.upper()
PyLower(s) == [i \in 1..Len(s) |-> Lower1(s[i])]
PyUpper(s) == [i \in 1..Len(s) |-> Upper1(s[i])]

\* index of the first character of s that is not in cs, Len(s)+1 if none
RECURSIVE SpanEnd(_, _, _)
SpanEnd(s, i, cs) ==
    IF i <= Len(s) /\ s[i] \in cs THEN SpanEnd(s, i + 1, cs) ELSE i

PyFloatUnsigned(s) ==
    LET low == PyLower(s)
    IN  IF low = <<"n", "a", "n">> THEN NaN
        ELSE IF low = <<"i", "n", "f">> \/ low = <<"i", "n", "f", "i", "n", "i", "t", "y">> THEN Inf
        ELSE
          LET i1 == SpanEnd(s, 1, Digits)                 \* end of the integer digits
              ip == SubSeq(s, 1, i1 - 1)
              hasDot == i1 <= Len(s) /\ s[i1] = "."
              f0 == IF hasDot THEN i1 + 1 ELSE i1
              f1 == SpanEnd(s, f0, Digits)                \* end of the fraction digits
              fp == SubSeq(s, f0, f1 - 1)
              hasExp == f1 <= Len(s) /\ low[f1] = "e"
              x0 == IF hasExp /\ f1 + 1 <= Len(s) /\ s[f1 + 1] = "+" THEN f1 + 2 ELSE f1 + 1
              x1 == SpanEnd(s, x0, Digits)
              xp == IF hasExp THEN SubSeq(s, x0, x1 - 1) ELSE <<>>
              last == IF hasExp THEN x1 ELSE f1
          IN  IF Len(ip) + Len(fp) = 0 THEN FloatError
              ELSE IF hasExp /\ xp = <<>> THEN FloatError
              ELSE IF last # Len(s) + 1 THEN FloatError
              ELSE Num(IntOf(ip \o fp), Len(fp) - IntOf(xp))

PyFloat(s) ==
    IF StartsWith(s, "+") THEN PyFloatUnsigned(Tail(s)) ELSE PyFloatUnsigned(s)

(***************************************************************************)
(* parse_number (bov_categorization.py:24-52)                              *)
(***************************************************************************)
CurrencyAndSpace == Whitespace \cup {"€", "$", "£"}

has_parens(val) == Len(val) >= 2 /\ val[1] = "(" /\ val[Len(val)] = ")"
\* mutant: the trailing minus is looked for after the sign characters were removed
has_trailing_minus_late(val) == EndsWith(RemoveChars(val, {"-", "(", ")"}), "-")
has_trailing_minus(val) == EndsWith(val, "-")
is_negative(val) == StartsWith(val, "-")

parse_number(cell) ==
    IF cell.t # "str" \/ cell.s = <<>> THEN Zero
    ELSE
      LET val == Strip(Strip(cell.s, Whitespace), {"\""})
          cleaned == RemoveChars(RemoveChars(RemoveChars(val, CurrencyAndSpace),
                                             {"-", "(", ")"}), {","})
          num == PyFloat(cleaned)
      IN  IF num = FloatError THEN Zero
          ELSE IF has_parens(val) \/ has_trailing_minus(val) \/ is_negative(val)
               THEN Neg(num) ELSE num

(***************************************************************************)
(* Dates.  The outcome of a date parse is a calendar date, None, the       *)
(* pandas null timestamp NaT, or a raised exception.                       *)
(***************************************************************************)
Date(y, m, d) == [k |-> "date", y |-> y, m |-> m, d |-> d]
None == [k |-> "None"]
NaT == [k |-> "NaT"]
Raised(exc) == [k |-> "raise", exc |-> exc]

IsLeap(y) == (y % 4 = 0 /\ y % 100 # 0) \/ y % 400 = 0

DaysInMonth(y, m) ==
    IF m = 2 THEN (IF IsLeap(y) THEN 29 ELSE 28)
    ELSE IF m \in {4, 6, 9, 11} THEN 30 ELSE 31

\* datetime(y, m, d): ValueError unless 1 <= y <= 9999, 1 <= m <= 12 and
\* 1 <= d <= days in the month
PyDatetime(y, m, d) ==
    IF y >= 1 /\ y <= 9999 /\ m >= 1 /\ m <= 12 /\ d >= 1 /\ d <= DaysInMonth(y, m)
    THEN Date(y, m, d)
    ELSE Raised("ValueError")

DateSeps == {"/", "-"}

\* the three digit groups of s when s has the shape  a [/-] b [/-] c  with
\* a of la digits, b of 1-2 digits, c of lc digits (lc a set of lengths),
\* and <<>> when it has not
DigitGroups(s, la, lc) ==
    LET a1 == SpanEnd(s, 1, Digits)
        b0 == a1 + 1
        b1 == SpanEnd(s, b0, Digits)
        c0 == b1 + 1
        c1 == SpanEnd(s, c0, Digits)
    IN  IF /\ (a1 - 1) \in la
           /\ a1 <= Len(s) /\ s[a1] \in DateSeps
           /\ (b1 - b0) \in {1, 2}
           /\ b1 <= Len(s) /\ s[b1] \in DateSeps
           /\ (c1 - c0) \in lc
           /\ c1 = Len(s) + 1
        THEN <<SubSeq(s, 1, a1 - 1), SubSeq(s, b0, b1 - 1), SubSeq(s, c0, c1 - 1)>>
        ELSE <<>>

\* re.match(r'^(\d{4})[/-](\d{1,2})[/-](\d{1,2})$', date_str)
MatchYearFirst(s) == DigitGroups(s, {4}, {1, 2})
\* mutant: the day of a day-first date must have two digits
MatchDayFirst_two_digit_day(s) == DigitGroups(s, {2}, {4})
\* re.match(r'^(\d{1,2})[/-](\d{1,2})[/-](\d{4})$', date_str)
MatchDayFirst(s) == DigitGroups(s, {1, 2}, {4})

MonthNames ==
    << <<"J", "a", "n", "u", "a", "r", "y">>,
       <<"F", "e", "b", "r", "u", "a", "r", "y">>,
       <<"M", "a", "r", "c", "h">>,
       <<"A", "p", "r", "i", "l">>,
       <<"M", "a", "y">>,
       <<"J", "u", "n", "e">>,
       <<"J", "u", "l", "y">>,
       <<"A", "u", "g", "u", "s", "t">>,
       <<"S", "e", "p", "t", "e", "m", "b", "e", "r">>,
       <<"O", "c", "t", "o", "b", "e", "r">>,
       <<"N", "o", "v", "e", "m", "b", "e", "r">>,
       <<"D", "e", "c", "e", "m", "b", "e", "r">> >>

\* the strings pandas reads as the null timestamp (the empty string too)
NatStrings == { <<>>, <<"n", "a", "n">>, <<"N", "a", "N">>, <<"N", "a", "T">> }

\* pd.to_datetime(date_str, dayfirst=True) on the strings of DateStrings that
\* reach it: "D Month YYYY" gives that day when it exists, a null string gives
\* NaT, anything else raises.
PdToDatetime(s) ==
    LET d1 == SpanEnd(s, 1, Digits)
        rest == SubSeq(s, d1 + 1, Len(s))
        ylen == 4
        name == SubSeq(rest, 1, Len(rest) - ylen - 1)
        ytxt == SubSeq(rest, Len(rest) - ylen + 1, Len(rest))
        shape == /\ (d1 - 1) \in {1, 2}
                 /\ d1 <= Len(s) /\ s[d1] = " "
                 /\ Len(rest) > ylen + 1
                 /\ rest[Len(rest) - ylen] = " "
                 /\ AllIn(ytxt, Digits)
                 /\ \E m \in 1..12 : MonthNames[m] = name
    IN  IF s \in NatStrings THEN NaT
        ELSE IF shape
        THEN LET m == CHOOSE m \in 1..12 : MonthNames[m] = name
             IN  PyDatetime(IntOf(ytxt), m, IntOf(SubSeq(s, 1, d1 - 1)))
        ELSE Raised("DateParseError")

(***************************************************************************)
(* parse_date_smart (bov_categorization.py:55-82)                          *)
(***************************************************************************)
parse_date_smart(raw) ==
    IF raw = <<>> THEN None
    ELSE
      LET date_str == Strip(raw, Whitespace)
          ymd == MatchYearFirst(date_str)
          dmy == MatchDayFirst(date_str)
      IN  IF ymd # <<>> THEN PyDatetime(IntOf(ymd[1]), IntOf(ymd[2]), IntOf(ymd[3]))
          ELSE IF dmy # <<>> THEN PyDatetime(IntOf(dmy[3]), IntOf(dmy[2]), IntOf(dmy[1]))
          ELSE LET r == PdToDatetime(date_str)   \* try: ... except: return None
               IN  IF r.k = "raise" THEN None ELSE r

(***************************************************************************)
(* Regular-expression search for the patterns of the classifier: a pattern *)
(* is a tuple of alternatives (a|b), an alternative a tuple of literal     *)
(* parts separated by '.*'.                                                *)
(***************************************************************************)
\* leftmost index >= from at which lit occurs in s, 0 if none
Find(s, lit, from) ==
    LET at == {i \in from..(Len(s) - Len(lit) + 1) : SubSeq(s, i, i + Len(lit) - 1) = lit}
    IN  IF at = {} THEN 0 ELSE CHOOSE i \in at : \A j \in at : i <= j

RECURSIVE SearchParts(_, _, _)
SearchParts(parts, s, from) ==
    IF parts = <<>> THEN TRUE
    ELSE LET i == Find(s, Head(parts), from)
         IN  i # 0 /\ SearchParts(Tail(parts), s, i + Len(Head(parts)))

\* re.search(pattern, s) is not None
ReSearch(alts, s) == \E a \in 1..Len(alts) : SearchParts(alts[a], s, 1)

\* the words joined by single spaces
RECURSIVE Phrase(_)
Phrase(ws) ==
    IF Len(ws) = 0 THEN <<>>
    ELSE IF Len(ws) = 1 THEN ws[1]
    ELSE ws[1] \o <<" ">> \o Phrase(Tail(ws))

\* the words of the patterns and labels of get_transaction_type
w_24x7 == <<"2", "4", "x", "7">>
w_account == <<"a", "c", "c", "o", "u", "n", "t">>
w_accounts == <<"a", "c", "c", "o", "u", "n", "t", "s">>
w_administration == <<"a", "d", "m", "i", "n", "i", "s", "t", "r", "a", "t", "i", "o", "n">>
w_amp == <<"&">>
w_atm == <<"a", "t", "m">>
w_bank == <<"b", "a", "n", "k">>
w_between == <<"b", "e", "t", "w", "e", "e", "n">>
w_bill == <<"b", "i", "l", "l">>
w_butcher == <<"b", "u", "t", "c", "h", "e", "r">>
w_cash == <<"c", "a", "s", "h">>
w_catering == <<"c", "a", "t", "e", "r", "i", "n", "g">>
w_charge == <<"c", "h", "a", "r", "g", "e">>
w_cheque == <<"c", "h", "e", "q", "u", "e">>
w_cheques == <<"c", "h", "e", "q", "u", "e", "s">>
w_customs == <<"c", "u", "s", "t", "o", "m", "s">>
w_debit == <<"d", "e", "b", "i", "t">>
w_deposit == <<"d", "e", "p", "o", "s", "i", "t">>
w_direct == <<"d", "i", "r", "e", "c", "t">>
w_eat == <<"e", "a", "t">>
w_electricity == <<"e", "l", "e", "c", "t", "r", "i", "c", "i", "t", "y">>
w_employment == <<"e", "m", "p", "l", "o", "y", "m", "e", "n", "t">>
w_fee == <<"f", "e", "e">>
w_food == <<"f", "o", "o", "d">>
w_gas == <<"g", "a", "s">>
w_gov == <<"g", "o", "v">>
w_government == <<"g", "o", "v", "e", "r", "n", "m", "e", "n", "t">>
w_hotel == <<"h", "o", "t", "e", "l">>
w_in == <<"i", "n">>
w_incoming == <<"i", "n", "c", "o", "m", "i", "n", "g">>
w_instant == <<"i", "n", "s", "t", "a", "n", "t">>
w_instruction == <<"i", "n", "s", "t", "r", "u", "c", "t", "i", "o", "n">>
w_insurance == <<"i", "n", "s", "u", "r", "a", "n", "c", "e">>
w_interest == <<"i", "n", "t", "e", "r", "e", "s", "t">>
w_internal == <<"i", "n", "t", "e", "r", "n", "a", "l">>
w_inwards == <<"i", "n", "w", "a", "r", "d", "s">>
w_life == <<"l", "i", "f", "e">>
w_loan == <<"l", "o", "a", "n">>
w_mapfre == <<"m", "a", "p", "f", "r", "e">>
w_mobile == <<"m", "o", "b", "i", "l", "e">>
w_msv == <<"m", "s", "v">>
w_other == <<"o", "t", "h", "e", "r">>
w_out == <<"o", "u", "t">>
w_outgoing == <<"o", "u", "t", "g", "o", "i", "n", "g">>
w_outwards == <<"o", "u", "t", "w", "a", "r", "d", "s">>
w_own == <<"o", "w", "n">>
w_party == <<"p", "a", "r", "t", "y">>
w_pay == <<"p", "a", "y">>
w_payment == <<"p", "a", "y", "m", "e", "n", "t">>
w_payments == <<"p", "a", "y", "m", "e", "n", "t", "s">>
w_principal == <<"p", "r", "i", "n", "c", "i", "p", "a", "l">>
w_refund == <<"r", "e", "f", "u", "n", "d">>
w_repayment == <<"r", "e", "p", "a", "y", "m", "e", "n", "t">>
w_restaurant == <<"r", "e", "s", "t", "a", "u", "r", "a", "n", "t">>
w_retail == <<"r", "e", "t", "a", "i", "l">>
w_returned == <<"r", "e", "t", "u", "r", "n", "e", "d">>
w_salary == <<"s", "a", "l", "a", "r", "y">>
w_sct == <<"s", "c", "t">>
w_sdd == <<"s", "d", "d">>
w_standing == <<"s", "t", "a", "n", "d", "i", "n", "g">>
w_stipend == <<"s", "t", "i", "p", "e", "n", "d">>
w_stipend_salary == <<"s", "t", "i", "p", "e", "n", "d", "/", "s", "a", "l", "a", "r", "y">>
w_stipendio == <<"s", "t", "i", "p", "e", "n", "d", "i", "o">>
w_supermarket == <<"s", "u", "p", "e", "r", "m", "a", "r", "k", "e", "t">>
w_tax == <<"t", "a", "x">>
w_third == <<"t", "h", "i", "r", "d">>
w_to == <<"t", "o">>
w_transfer == <<"t", "r", "a", "n", "s", "f", "e", "r">>
w_utility == <<"u", "t", "i", "l", "i", "t", "y">>
w_vat == <<"v", "a", "t">>
w_water == <<"w", "a", "t", "e", "r">>
w_withdrawal == <<"w", "i", "t", "h", "d", "r", "a", "w", "a", "l">>

(***************************************************************************)
(* get_transaction_type (bov_categorization.py:85-198): the ordered chain  *)
(* of tests, in the groups of the source; NoLabel: no test of the group    *)
(* matched and control falls through to the next group.                    *)
(***************************************************************************)
NoLabel == <<>>

\* mutant: the generic cheque test is made before the specific ones
cheque_rules_generic_first(detail_lower) ==
    IF ReSearch(<< <<Phrase(<<w_cheque>>)>> >>, detail_lower)
    THEN Phrase(<<w_cheque, w_payment>>) ELSE
    IF ReSearch(<< <<Phrase(<<w_cheque>>), Phrase(<<w_deposit>>)>> >>, detail_lower)
    THEN Phrase(<<w_cheque, w_deposit>>) ELSE
    IF ReSearch(<< <<Phrase(<<w_cheque>>), Phrase(<<w_returned>>)>> >>, detail_lower)
    THEN Phrase(<<w_cheque, w_returned, w_fee>>) ELSE
    IF ReSearch(<< <<Phrase(<<w_cheques, w_returned>>)>> >>, detail_lower)
    THEN Phrase(<<w_cheque, w_returned>>) ELSE
    NoLabel

\* Cheques (lines 94-102)
cheque_rules(detail_lower) ==
    \* r'cheque.*deposit'
    IF ReSearch(<< <<Phrase(<<w_cheque>>), Phrase(<<w_deposit>>)>> >>, detail_lower)
    THEN Phrase(<<w_cheque, w_deposit>>) ELSE
    \* r'cheque.*returned'
    IF ReSearch(<< <<Phrase(<<w_cheque>>), Phrase(<<w_returned>>)>> >>, detail_lower)
    THEN Phrase(<<w_cheque, w_returned, w_fee>>) ELSE
    \* r'cheques returned'
    IF ReSearch(<< <<Phrase(<<w_cheques, w_returned>>)>> >>, detail_lower)
    THEN Phrase(<<w_cheque, w_returned>>) ELSE
    \* r'cheque'
    IF ReSearch(<< <<Phrase(<<w_cheque>>)>> >>, detail_lower)
    THEN Phrase(<<w_cheque, w_payment>>) ELSE
    NoLabel

\* Transfers (lines 104-116)
transfer_rules(detail_lower) ==
    \* r'account to account'
    IF ReSearch(<< <<Phrase(<<w_account, w_to, w_account>>)>> >>, detail_lower)
    THEN Phrase(<<w_account, w_transfer>>) ELSE
    \* r'transfer between own accounts'
    IF ReSearch(<< <<Phrase(<<w_transfer, w_between, w_own, w_accounts>>)>> >>, detail_lower)
    THEN Phrase(<<w_internal, w_transfer>>) ELSE
    \* r'sct inwards'
    IF ReSearch(<< <<Phrase(<<w_sct, w_inwards>>)>> >>, detail_lower)
    THEN Phrase(<<w_incoming, w_sct, w_transfer>>) ELSE
    \* r'sct outwards'
    IF ReSearch(<< <<Phrase(<<w_sct, w_outwards>>)>> >>, detail_lower)
    THEN Phrase(<<w_outgoing, w_sct, w_transfer>>) ELSE
    \* r'instant payments inwards'
    IF ReSearch(<< <<Phrase(<<w_instant, w_payments, w_inwards>>)>> >>, detail_lower)
    THEN Phrase(<<w_instant, w_payment, w_in>>) ELSE
    \* r'instant payment'
    IF ReSearch(<< <<Phrase(<<w_instant, w_payment>>)>> >>, detail_lower)
    THEN Phrase(<<w_instant, w_payment>>) ELSE
    NoLabel

\* Fees & charges (lines 118-128)
fee_rules(detail_lower) ==
    \* r'fee'
    IF ReSearch(<< <<Phrase(<<w_fee>>)>> >>, detail_lower)
    THEN Phrase(<<w_bank, w_fee>>) ELSE
    \* r'charge'
    IF ReSearch(<< <<Phrase(<<w_charge>>)>> >>, detail_lower)
    THEN Phrase(<<w_bank, w_charge>>) ELSE
    \* r'administration fee'
    IF ReSearch(<< <<Phrase(<<w_administration, w_fee>>)>> >>, detail_lower)
    THEN Phrase(<<w_administration, w_fee>>) ELSE
    \* r'standing instruction charge'
    IF ReSearch(<< <<Phrase(<<w_standing, w_instruction, w_charge>>)>> >>, detail_lower)
    THEN Phrase(<<w_standing, w_instruction, w_charge>>) ELSE
    \* r'standing instruction'
    IF ReSearch(<< <<Phrase(<<w_standing, w_instruction>>)>> >>, detail_lower)
    THEN Phrase(<<w_standing, w_instruction>>) ELSE
    NoLabel

\* Salaries & employment (lines 130-136)
salary_rules(detail_lower) ==
    \* r'salary'
    IF ReSearch(<< <<Phrase(<<w_salary>>)>> >>, detail_lower)
    THEN Phrase(<<w_salary>>) ELSE
    \* r'employment'
    IF ReSearch(<< <<Phrase(<<w_employment>>)>> >>, detail_lower)
    THEN Phrase(<<w_employment, w_payment>>) ELSE
    \* r'stipendio|stipend'
    IF ReSearch(<< <<Phrase(<<w_stipendio>>)>>, <<Phrase(<<w_stipend>>)>> >>, detail_lower)
    THEN Phrase(<<w_stipend_salary>>) ELSE
    NoLabel

\* Loans & repayments (lines 138-144)
loan_rules(detail_lower) ==
    \* r'repayment.*principal'
    IF ReSearch(<< <<Phrase(<<w_repayment>>), Phrase(<<w_principal>>)>> >>, detail_lower)
    THEN Phrase(<<w_loan, w_principal, w_repayment>>) ELSE
    \* r'repayment.*interest'
    IF ReSearch(<< <<Phrase(<<w_repayment>>), Phrase(<<w_interest>>)>> >>, detail_lower)
    THEN Phrase(<<w_loan, w_interest, w_repayment>>) ELSE
    \* r'loan'
    IF ReSearch(<< <<Phrase(<<w_loan>>)>> >>, detail_lower)
    THEN Phrase(<<w_loan>>) ELSE
    NoLabel

\* Taxes & government (lines 146-154)
tax_rules(detail_lower) ==
    \* r'tax'
    IF ReSearch(<< <<Phrase(<<w_tax>>)>> >>, detail_lower)
    THEN Phrase(<<w_tax, w_payment>>) ELSE
    \* r'vat'
    IF ReSearch(<< <<Phrase(<<w_vat>>)>> >>, detail_lower)
    THEN Phrase(<<w_vat, w_payment>>) ELSE
    \* r'customs'
    IF ReSearch(<< <<Phrase(<<w_customs>>)>> >>, detail_lower)
    THEN Phrase(<<w_customs, w_payment>>) ELSE
    \* r'government|gov'
    IF ReSearch(<< <<Phrase(<<w_government>>)>>, <<Phrase(<<w_gov>>)>> >>, detail_lower)
    THEN Phrase(<<w_government, w_payment>>) ELSE
    NoLabel

\* ATM deposits (lines 156-158)
atm_rules(detail_lower) ==
    \* r'atm.*cash.*deposit'
    IF ReSearch(<< <<Phrase(<<w_atm>>), Phrase(<<w_cash>>), Phrase(<<w_deposit>>)>> >>, detail_lower)
    THEN Phrase(<<w_atm, w_cash, w_deposit>>) ELSE
    NoLabel

\* 24x7 payments (lines 160-166)
pay24x7_rules(detail_lower) ==
    \* r'24x7 pay'
    IF ReSearch(<< <<Phrase(<<w_24x7, w_pay>>)>> >>, detail_lower)
    THEN Phrase(<<w_third, w_party, w_payment>>) ELSE
    \* r'24x7 bill'
    IF ReSearch(<< <<Phrase(<<w_24x7, w_bill>>)>> >>, detail_lower)
    THEN Phrase(<<w_bill, w_payment>>) ELSE
    \* r'24x7 mobile pay'
    IF ReSearch(<< <<Phrase(<<w_24x7, w_mobile, w_pay>>)>> >>, detail_lower)
    THEN Phrase(<<w_mobile, w_payment>>) ELSE
    NoLabel

\* Direct debits (lines 168-170)
direct_debit_rules(detail_lower) ==
    \* r'sdd outwards'
    IF ReSearch(<< <<Phrase(<<w_sdd, w_outwards>>)>> >>, detail_lower)
    THEN Phrase(<<w_direct, w_debit, w_out>>) ELSE
    NoLabel

\* Insurance (lines 172-174)
insurance_rules(detail_lower) ==
    \* r'mapfre|msv life|insurance'
    IF ReSearch(<< <<Phrase(<<w_mapfre>>)>>, <<Phrase(<<w_msv, w_life>>)>>, <<Phrase(<<w_insurance>>)>> >>, detail_lower)
    THEN Phrase(<<w_insurance, w_payment>>) ELSE
    NoLabel

\* Retail / food / hospitality (lines 176-184)
retail_rules(detail_lower) ==
    \* r'hotel'
    IF ReSearch(<< <<Phrase(<<w_hotel>>)>> >>, detail_lower)
    THEN Phrase(<<w_hotel, w_payment>>) ELSE
    \* r'catering'
    IF ReSearch(<< <<Phrase(<<w_catering>>)>> >>, detail_lower)
    THEN Phrase(<<w_catering, w_payment>>) ELSE
    \* r'butcher|food|supermarket|restaurant|eat'
    IF ReSearch(<< <<Phrase(<<w_butcher>>)>>, <<Phrase(<<w_food>>)>>, <<Phrase(<<w_supermarket>>)>>, <<Phrase(<<w_restaurant>>)>>, <<Phrase(<<w_eat>>)>> >>, detail_lower)
    THEN Phrase(<<w_food, w_amp, w_retail>>) ELSE
    \* r'retail'
    IF ReSearch(<< <<Phrase(<<w_retail>>)>> >>, detail_lower)
    THEN Phrase(<<w_retail, w_payment>>) ELSE
    NoLabel

\* Utilities (lines 186-188)
utility_rules(detail_lower) ==
    \* r'electricity|water|gas|utility'
    IF ReSearch(<< <<Phrase(<<w_electricity>>)>>, <<Phrase(<<w_water>>)>>, <<Phrase(<<w_gas>>)>>, <<Phrase(<<w_utility>>)>> >>, detail_lower)
    THEN Phrase(<<w_utility, w_payment>>) ELSE
    NoLabel

\* Misc (lines 190-196)
misc_rules(detail_lower) ==
    \* r'refund'
    IF ReSearch(<< <<Phrase(<<w_refund>>)>> >>, detail_lower)
    THEN Phrase(<<w_refund>>) ELSE
    \* r'deposit'
    IF ReSearch(<< <<Phrase(<<w_deposit>>)>> >>, detail_lower)
    THEN Phrase(<<w_deposit>>) ELSE
    \* r'withdrawal'
    IF ReSearch(<< <<Phrase(<<w_withdrawal>>)>> >>, detail_lower)
    THEN Phrase(<<w_withdrawal>>) ELSE
    NoLabel

get_transaction_type(detail) ==
    IF detail = <<>> THEN Phrase(<<w_other>>)
    ELSE LET detail_lower == PyLower(detail)
             groups == << cheque_rules(detail_lower),
                          transfer_rules(detail_lower),
                          fee_rules(detail_lower),
                          salary_rules(detail_lower),
                          loan_rules(detail_lower),
                          tax_rules(detail_lower),
                          atm_rules(detail_lower),
                          pay24x7_rules(detail_lower),
                          direct_debit_rules(detail_lower),
                          insurance_rules(detail_lower),
                          retail_rules(detail_lower),
                          utility_rules(detail_lower),
                          misc_rules(detail_lower) >>
             hit == {g \in 1..Len(groups) : groups[g] # NoLabel}
         IN  IF hit = {} THEN Phrase(<<w_other>>)
             ELSE groups[CHOOSE g \in hit : \A h \in hit : g <= h]

(***************************************************************************)
(* Backtracking regular-expression matcher (Python re) for the patterns of *)
(* extract_invoice and extract_counterparty.  A pattern is a tree of       *)
(* nodes; Ends(n, s, i) is the sequence of positions at which a match of n *)
(* that starts at position i can end, in the order in which the            *)
(* backtracking matcher tries them (greedy repetition: longest first;      *)
(* alternation: left to right).  A position is the index of the next       *)
(* character to be read, 1..Len(s)+1.                                      *)
(***************************************************************************)
Ch(cs) == [t |-> "ch", neg |-> FALSE, cs |-> cs]          \* [..]
NotCh(cs) == [t |-> "ch", neg |-> TRUE, cs |-> cs]        \* [^..]
Cat(xs) == [t |-> "cat", xs |-> xs]                       \* x1 x2 ..
Alt(xs) == [t |-> "alt", xs |-> xs]                       \* x1|x2|..
Rep(x, lo, hi) == [t |-> "rep", x |-> x, lo |-> lo, hi |-> hi]   \* x{lo,hi}
Unbounded == -1
Star(x) == Rep(x, 0, Unbounded)
Plus(x) == Rep(x, 1, Unbounded)
Opt(x) == Rep(x, 0, 1)
WordB == [t |-> "wb"]                                     \* \b
EndS == [t |-> "eos"]                                     \* $

\* \s, \d, \w, . and letter ranges
UpperSet == {UpperLetters[i] : i \in 1..26}
LowerSet == {LowerLetters[i] : i \in 1..26}
WordChars == UpperSet \cup LowerSet \cup Digits \cup NonDecimalDigits \cup {"_"}
AnyChar == NotCh({"\n"})

\* a literal string, case-sensitive and under re.IGNORECASE
Lit(css) == [t |-> "lit", css |-> css]
LitS(str) == Lit([i \in 1..Len(str) |-> {str[i]}])
LitI(str) == Lit([i \in 1..Len(str) |-> {Lower1(str[i]), Upper1(str[i])}])

InClass(n, c) == (c \in n.cs) # n.neg

IsWordAt(s, i) == i >= 1 /\ i <= Len(s) /\ s[i] \in WordChars
AtWordBoundary(s, i) == IsWordAt(s, i - 1) # IsWordAt(s, i)
\* $ without re.MULTILINE: at the end, or before a final newline
AtEnd(s, i) == i = Len(s) + 1 \/ (i = Len(s) /\ s[i] = "\n")

\* the literal n read at position i
MatchesLit(n, s, i) ==
    /\ i + Len(n.css) - 1 <= Len(s)
    /\ \A k \in 1..Len(n.css) : s[i + k - 1] \in n.css[k]

\* a repeated character class: the run of characters of the class that
\* starts at i, at most n.hi long, given back one character at a time
ClassRun(n, s, i) ==
    LET stop == CHOOSE j \in i..(Len(s) + 1) :
                    /\ j = Len(s) + 1 \/ ~InClass(n.x, s[j])
                    /\ \A h \in i..(j - 1) : InClass(n.x, s[h])
        run == IF n.hi # Unbounded /\ stop - i > n.hi THEN n.hi ELSE stop - i
    IN  [idx \in 1..(run - n.lo + 1) |-> i + run - (idx - 1)]

RECURSIVE Ends(_, _, _)
RECURSIVE EndsCat(_, _, _, _)
RECURSIVE EndsCatEach(_, _, _, _, _)
RECURSIVE EndsAlt(_, _, _, _)
RECURSIVE EndsRep(_, _, _, _)
RECURSIVE EndsRepEach(_, _, _, _, _)

Ends(n, s, i) ==
    CASE n.t = "ch" -> IF i <= Len(s) /\ InClass(n, s[i]) THEN <<i + 1>> ELSE <<>>
      [] n.t = "lit" -> IF MatchesLit(n, s, i) THEN <<i + Len(n.css)>> ELSE <<>>
      [] n.t = "wb" -> IF AtWordBoundary(s, i) THEN <<i>> ELSE <<>>
      [] n.t = "eos" -> IF AtEnd(s, i) THEN <<i>> ELSE <<>>
      [] n.t = "cat" -> EndsCat(n.xs, 1, s, i)
      [] n.t = "alt" -> EndsAlt(n.xs, 1, s, i)
      [] n.t = "rep" -> IF n.x.t = "ch" THEN ClassRun(n, s, i) ELSE EndsRep(n, 0, s, i)

\* xs[k..] matched from i
EndsCat(xs, k, s, i) ==
    IF k > Len(xs) THEN <<i>>
    ELSE The({EndsCatEach(xs, k, s, es, 1) : es \in {Ends(xs[k], s, i)}})

EndsCatEach(xs, k, s, es, j) ==
    IF j > Len(es) THEN <<>>
    ELSE EndsCat(xs, k + 1, s, es[j]) \o EndsCatEach(xs, k, s, es, j + 1)

EndsAlt(xs, k, s, i) ==
    IF k > Len(xs) THEN <<>>
    ELSE Ends(xs[k], s, i) \o EndsAlt(xs, k + 1, s, i)

\* n.x repeated, done times so far: one more repetition is tried first
EndsRep(n, done, s, i) ==
    LET more == IF n.hi = Unbounded \/ done < n.hi
                THEN The({EndsRepEach(n, done, s, es, 1) :
                             es \in {SelectSeq(Ends(n.x, s, i), LAMBDA e : e > i)}})
                ELSE <<>>
    IN  IF done >= n.lo THEN Append(more, i) ELSE more

EndsRepEach(n, done, s, es, j) ==
    IF j > Len(es) THEN <<>>
    ELSE EndsRep(n, done + 1, s, es[j])
            \o EndsRepEach(n, done, s, es, j + 1)

\* the path of the first successful match of the consecutive segments segs
\* from position i: <<i, end of segs[1], end of segs[2], ..>>, or <<>>
RECURSIVE FirstPath(_, _, _)
RECURSIVE FirstPathEach(_, _, _, _, _)
FirstPath(segs, s, i) ==
    IF segs = <<>> THEN <<i>>
    ELSE The({FirstPathEach(segs, s, i, es, 1) : es \in {Ends(Head(segs), s, i)}})

FirstPathEach(segs, s, i, es, j) ==
    IF j > Len(es) THEN <<>>
    ELSE The({IF rest # <<>> THEN <<i>> \o rest
              ELSE FirstPathEach(segs, s, i, es, j + 1) :
                 rest \in {FirstPath(Tail(segs), s, es[j])}})

\* re.search from position from: the path of the leftmost match, or <<>>
SearchFrom(segs, s, from) ==
    LET starts == {i \in from..(Len(s) + 1) : FirstPath(segs, s, i) # <<>>}
    IN  IF starts = {} THEN <<>>
        ELSE FirstPath(segs, s, CHOOSE i \in starts : \A h \in starts : i <= h)

Search(segs, s) == The({SearchFrom(segs, t, 1) : t \in {s}})

\* s[a .. b-1]
Slice(s, a, b) == SubSeq(s, a, b - 1)

\* re.sub(pattern, repl, s): every non-overlapping match, left to right,
\* replaced by repl (the patterns used never match the empty string)
RECURSIVE SubFrom(_, _, _, _)
SubFrom(segs, repl, s, from) ==
    The({IF path = <<>> \/ path[Len(path)] = path[1] THEN Slice(s, from, Len(s) + 1)
         ELSE Slice(s, from, path[1]) \o repl \o SubFrom(segs, repl, s, path[Len(path)]) :
            path \in {SearchFrom(segs, s, from)}})

ReSub(segs, repl, s) == The({SubFrom(segs, repl, t, 1) : t \in {s}})

\* re.split(pattern, s)[0]
ReSplitFirst(segs, s) ==
    The({IF path = <<>> THEN t ELSE Slice(t, 1, path[1]) :
            t \in {s}, path \in {Search(segs, s)}})

(***************************************************************************)
(* The patterns of extract_invoice and extract_counterparty, as lists of   *)
(* consecutive segments (a capture group is a segment of its own).         *)
(***************************************************************************)
\* further words of the patterns of the extractors
w_administratio == <<"a", "d", "m", "i", "n", "i", "s", "t", "r", "a", "t", "i", "o">>
w_book == <<"b", "o", "o", "k">>
w_company == <<"c", "o", "m", "p", "a", "n", "y">>
w_date == <<"d", "a", "t", "e">>
w_day == <<"d", "a", "y">>
w_deposits == <<"d", "e", "p", "o", "s", "i", "t", "s">>
w_express == <<"e", "x", "p", "r", "e", "s", "s">>
w_fatt == <<"f", "a", "t", "t">>
w_invoice == <<"i", "n", "v", "o", "i", "c", "e">>
w_limited == <<"l", "i", "m", "i", "t", "e", "d">>
w_order == <<"o", "r", "d", "e", "r">>
w_parties == <<"p", "a", "r", "t", "i", "e", "s">>
w_same == <<"s", "a", "m", "e">>
w_unprocessed == <<"u", "n", "p", "r", "o", "c", "e", "s", "s", "e", "d">>
w_value == <<"v", "a", "l", "u", "e">>

\* mutant: the tokens are matched in lower case only
re_invoice_case_sensitive ==
    << Alt(<<LitS(w_invoice), LitS(<<"i", "n", "v">>), Cat(<<LitS(w_fatt), Opt(LitS(<<"u", "r", "a">>)), Star(Ch(Whitespace)), LitS(<<"n">>), Opt(LitS(<<"r">>))>>)>>),
       Star(Ch(Whitespace)),
       Plus(Ch(Digits)) >>
\* line 208: r'(invoice|inv|fatt(?:ura)?\s*nr?)\s*([0-9]+)' (re.IGNORECASE)
re_invoice ==
    << Alt(<<LitI(w_invoice), LitI(<<"i", "n", "v">>), Cat(<<LitI(w_fatt), Opt(LitI(<<"u", "r", "a">>)), Star(Ch(Whitespace)), LitI(<<"n">>), Opt(LitI(<<"r">>))>>)>>),
       Star(Ch(Whitespace)),
       Plus(Ch(Digits)) >>

\* line 222: r'administratio' (re.IGNORECASE)
re_administratio ==
    << LitI(w_administratio) >>

\* line 223: r'ADMINISTRATIO\s+([0-9]+)' (re.IGNORECASE)
re_tax_ref ==
    << Cat(<<LitI(w_administratio), Plus(Ch(Whitespace))>>),
       Plus(Ch(Digits)) >>

\* line 230: r'24x7\s*pay\s*third\s*parties' (re.IGNORECASE)
remove_01 ==
    << Cat(<<LitI(w_24x7), Star(Ch(Whitespace)), LitI(<<"p", "a", "y">>), Star(Ch(Whitespace)), LitI(w_third), Star(Ch(Whitespace)), LitI(w_parties)>>) >>

\* line 231: r'24x7\s*pay' (re.IGNORECASE)
remove_02 ==
    << Cat(<<LitI(w_24x7), Star(Ch(Whitespace)), LitI(<<"p", "a", "y">>)>>) >>

\* line 232: r'third\s*parties' (re.IGNORECASE)
remove_03 ==
    << Cat(<<LitI(w_third), Star(Ch(Whitespace)), LitI(w_parties)>>) >>

\* line 233: r'payment order outwards same day' (re.IGNORECASE)
remove_04 ==
    << LitI(Phrase(<<w_payment, w_order, w_outwards, w_same, w_day>>)) >>

\* line 234: r'payment order outwards' (re.IGNORECASE)
remove_05 ==
    << LitI(Phrase(<<w_payment, w_order, w_outwards>>)) >>

\* line 235: r'account to account transfer express deposits' (re.IGNORECASE)
remove_06 ==
    << LitI(Phrase(<<w_account, w_to, w_account, w_transfer, w_express, w_deposits>>)) >>

\* line 236: r'account to account transfer' (re.IGNORECASE)
remove_07 ==
    << LitI(Phrase(<<w_account, w_to, w_account, w_transfer>>)) >>

\* line 237: r'transfer between own accounts' (re.IGNORECASE)
remove_08 ==
    << LitI(Phrase(<<w_transfer, w_between, w_own, w_accounts>>)) >>

\* line 238: r'sct instant payments inwards' (re.IGNORECASE)
remove_09 ==
    << LitI(Phrase(<<w_sct, w_instant, w_payments, w_inwards>>)) >>

\* line 239: r'sct inwards' (re.IGNORECASE)
remove_10 ==
    << LitI(Phrase(<<w_sct, w_inwards>>)) >>

\* line 240: r'sct outwards' (re.IGNORECASE)
remove_11 ==
    << LitI(Phrase(<<w_sct, w_outwards>>)) >>

\* line 241: r'standing instruction charge' (re.IGNORECASE)
remove_12 ==
    << LitI(Phrase(<<w_standing, w_instruction, w_charge>>)) >>

\* line 242: r'standing instruction' (re.IGNORECASE)
remove_13 ==
    << LitI(Phrase(<<w_standing, w_instruction>>)) >>

\* line 243: r'administration fee' (re.IGNORECASE)
remove_14 ==
    << LitI(Phrase(<<w_administration, w_fee>>)) >>

\* line 244: r'unprocessed standing instruction charge' (re.IGNORECASE)
remove_15 ==
    << LitI(Phrase(<<w_unprocessed, w_standing, w_instruction, w_charge>>)) >>

\* line 245: r'sdd outwards fee' (re.IGNORECASE)
remove_16 ==
    << LitI(Phrase(<<w_sdd, w_outwards, w_fee>>)) >>

\* line 246: r'atm cash deposit' (re.IGNORECASE)
remove_17 ==
    << LitI(Phrase(<<w_atm, w_cash, w_deposit>>)) >>

\* line 247: r'cheque deposit.*$' (re.IGNORECASE)
remove_18 ==
    << Cat(<<LitI(Phrase(<<w_cheque, w_deposit>>)), Star(AnyChar), EndS>>) >>

\* line 248: r'cheque returned fee.*$' (re.IGNORECASE)
remove_19 ==
    << Cat(<<LitI(Phrase(<<w_cheque, w_returned, w_fee>>)), Star(AnyChar), EndS>>) >>

\* line 249: r'cheque book order fee.*$' (re.IGNORECASE)
remove_20 ==
    << Cat(<<LitI(Phrase(<<w_cheque, w_book, w_order, w_fee>>)), Star(AnyChar), EndS>>) >>

\* line 250: r'cheque\s+\d+.*' (re.IGNORECASE)
remove_21 ==
    << Cat(<<LitI(w_cheque), Plus(Ch(Whitespace)), Plus(Ch(Digits)), Star(AnyChar)>>) >>

\* line 251: r'relation:\s*[^,]+' (re.IGNORECASE)
remove_22 ==
    << Cat(<<LitI(<<"r", "e", "l", "a", "t", "i", "o", "n", ":">>), Star(Ch(Whitespace)), Plus(NotCh({","}))>>) >>

\* line 252: r'reason:\s*[^,]+' (re.IGNORECASE)
remove_23 ==
    << Cat(<<LitI(<<"r", "e", "a", "s", "o", "n", ":">>), Star(Ch(Whitespace)), Plus(NotCh({","}))>>) >>

\* line 253: r'value date\s*-\s*[0-9/]+' (re.IGNORECASE)
remove_24 ==
    << Cat(<<LitI(Phrase(<<w_value, w_date>>)), Star(Ch(Whitespace)), LitI(<<"-">>), Star(Ch(Whitespace)), Plus(Ch(Digits \cup {"/"}))>>) >>

\* line 254: r'ref\s*:\s*[-0-9A-Za-z.]+.*$' (re.IGNORECASE)
remove_25 ==
    << Cat(<<LitI(<<"r", "e", "f">>), Star(Ch(Whitespace)), LitI(<<":">>), Star(Ch(Whitespace)), Plus(Ch(Digits \cup UpperSet \cup LowerSet \cup {"-", "."})), Star(AnyChar), EndS>>) >>

\* line 255: r'\s+eur\s+[0-9.,]+' (re.IGNORECASE)
remove_26 ==
    << Cat(<<Plus(Ch(Whitespace)), LitI(<<"e", "u", "r">>), Plus(Ch(Whitespace)), Plus(Ch(Digits \cup {".", ","}))>>) >>

\* lines 229-256: the list, in order
patterns_to_remove ==
    << remove_01, remove_02, remove_03, remove_04, remove_05, remove_06,
       remove_07, remove_08, remove_09, remove_10, remove_11, remove_12,
       remove_13, remove_14, remove_15, remove_16, remove_17, remove_18,
       remove_19, remove_20, remove_21, remove_22, remove_23, remove_24,
       remove_25, remove_26 >>

\* line 261: r'\s+'
re_whitespace_run ==
    << Plus(Ch(Whitespace)) >>

\* line 264: r'ref\s*:|value date|relation:' (re.IGNORECASE)
re_delimiters ==
    << Alt(<<Cat(<<LitI(<<"r", "e", "f">>), Star(Ch(Whitespace)), LitI(<<":">>)>>), LitI(Phrase(<<w_value, w_date>>)), LitI(<<"r", "e", "l", "a", "t", "i", "o", "n", ":">>)>>) >>

\* line 267: r'\b([A-Z][A-Za-z &.\'-]*\s(?:ltd|limited|plc|co|company))\b' (re.IGNORECASE)
re_company ==
    << WordB,
       Cat(<<Ch(UpperSet \cup LowerSet), Star(Ch(UpperSet \cup LowerSet \cup {" ", "&", ".", "'", "-"})), Ch(Whitespace), Alt(<<LitI(<<"l", "t", "d">>), LitI(w_limited), LitI(<<"p", "l", "c">>), LitI(<<"c", "o">>), LitI(w_company)>>)>>),
       WordB >>

\* line 272: r'\s+eur\s+' (re.IGNORECASE)
re_eur ==
    << Cat(<<Plus(Ch(Whitespace)), LitI(<<"e", "u", "r">>), Plus(Ch(Whitespace))>>) >>

\* line 277: r'\b(Mr|Ms|Mrs|Dr)\.?\s+[A-Z][a-z]+(?:\s+[A-Z][a-z]+)?\b'
re_person ==
    << WordB,
       Alt(<<LitS(<<"M", "r">>), LitS(<<"M", "s">>), LitS(<<"M", "r", "s">>), LitS(<<"D", "r">>)>>),
       Cat(<<Opt(LitS(<<".">>)), Plus(Ch(Whitespace)), Ch(UpperSet), Plus(Ch(LowerSet)), Opt(Cat(<<Plus(Ch(Whitespace)), Ch(UpperSet), Plus(Ch(LowerSet))>>)), WordB>>) >>

\* line 282: r'\b([A-Z][A-Z &.\'-]{2,})\b'
re_upper ==
    << WordB,
       Cat(<<Ch(UpperSet), Rep(Ch(UpperSet \cup {" ", "&", ".", "'", "-"}), 2, Unbounded)>>),
       WordB >>

\* line 287: r'\b([A-Z][a-z]+(?:\s+[A-Z][a-z]+){1,4})\b'
re_capitalized ==
    << WordB,
       Cat(<<Ch(UpperSet), Plus(Ch(LowerSet)), Rep(Cat(<<Plus(Ch(Whitespace)), Ch(UpperSet), Plus(Ch(LowerSet))>>), 1, 4)>>),
       WordB >>

(***************************************************************************)
(* extract_invoice (bov_categorization.py:201-211)                         *)
(***************************************************************************)
extract_invoice(detail) ==
    IF detail = <<>> THEN <<>>
    ELSE The({IF match # <<>>
              THEN w_invoice \o <<" ">> \o Slice(detail, match[3], match[4])
              ELSE <<>> :
                 match \in {Search(re_invoice, detail)}})

(***************************************************************************)
(* extract_counterparty (bov_categorization.py:214-293)                    *)
(***************************************************************************)
\* lines 258-259: the patterns removed one after the other
RECURSIVE RemoveAll(_, _, _)
RemoveAll(patterns, k, cleaned) ==
    IF k > Len(patterns) THEN cleaned
    ELSE The({RemoveAll(patterns, k + 1, next) : next \in {ReSub(patterns[k], <<>>, cleaned)}})

\* str.split(): the maximal runs of non-whitespace characters
RECURSIVE PySplit(_)
PySplit(s) ==
    The({IF t = <<>> THEN <<>>
         ELSE The({<<Slice(t, 1, e)>> \o PySplit(Slice(t, e, Len(t) + 1)) :
                      e \in {SpanEnd(t, 1, {c \in {t[i] : i \in 1..Len(t)} : c \notin Whitespace})}}) :
            t \in {LStrip(s, Whitespace)}})

FirstN(xs, n) == SubSeq(xs, 1, IF Len(xs) < n THEN Len(xs) ELSE n)

\* mutant: the tax reference is not looked for
TaxRef_skipped(detail) == <<>>
\* lines 221-225: the tax reference, if the detail names the administration
TaxRef(detail) ==
    IF Search(re_administratio, detail) # <<>> THEN Search(re_tax_ref, detail) ELSE <<>>

\* lines 228-264: prefixes and suffixes removed, whitespace collapsed, cut at
\* the first delimiter
Cleaned(detail) ==
    The({The({Strip(ReSplitFirst(re_delimiters, collapsed), Whitespace) :
                 collapsed \in {Strip(ReSub(re_whitespace_run, <<" ">>, removed), Whitespace)}}) :
            removed \in {RemoveAll(patterns_to_remove, 1, detail)}})

\* lines 272-275: cut at the EUR amount if at least 3 characters stay
EurSplit(cleaned) ==
    The({IF Len(eur_split) >= 3 THEN eur_split ELSE cleaned :
            eur_split \in {Strip(ReSplitFirst(re_eur, cleaned), Whitespace)}})

\* mutant: the uppercase run is looked for before the person title
NameIn_upper_first(cleaned) ==
    The({IF upper_match # <<>>
         THEN Slice(cleaned, upper_match[2], upper_match[3])
         ELSE The({IF person_match # <<>>
                   THEN Slice(cleaned, person_match[1], person_match[Len(person_match)])
                   ELSE The({IF cap_match # <<>>
                             THEN Slice(cleaned, cap_match[2], cap_match[3])
                             ELSE Strip(Phrase(FirstN(PySplit(cleaned), 5)), Whitespace) :
                                cap_match \in {Search(re_capitalized, cleaned)}}) :
                      person_match \in {Search(re_person, cleaned)}}) :
            upper_match \in {Search(re_upper, cleaned)}})
\* lines 277-293: person title, uppercase run, capitalized run, first 5 words
NameIn(cleaned) ==
    The({IF person_match # <<>>
         THEN Slice(cleaned, person_match[1], person_match[Len(person_match)])
         ELSE The({IF upper_match # <<>>
                   THEN Slice(cleaned, upper_match[2], upper_match[3])
                   ELSE The({IF cap_match # <<>>
                             THEN Slice(cleaned, cap_match[2], cap_match[3])
                             ELSE Strip(Phrase(FirstN(PySplit(cleaned), 5)), Whitespace) :
                                cap_match \in {Search(re_capitalized, cleaned)}}) :
                      upper_match \in {Search(re_upper, cleaned)}}) :
            person_match \in {Search(re_person, cleaned)}})

\* lines 266-270: the company suffix is looked for before the EUR cut
CompanyOrName(cleaned) ==
    The({IF company_match # <<>>
         THEN Slice(cleaned, company_match[2], company_match[3])
         ELSE The({NameIn(cleaned2) : cleaned2 \in {EurSplit(cleaned)}}) :
            company_match \in {Search(re_company, cleaned)}})

extract_counterparty(detail) ==
    IF detail = <<>> THEN <<>>
    ELSE The({IF tax_ref # <<>> THEN Slice(detail, tax_ref[2], tax_ref[3])
              ELSE The({CompanyOrName(cleaned) : cleaned \in {Cleaned(detail)}}) :
                 tax_ref \in {TaxRef(detail)}})

(***************************************************************************)
(* capitalize_first and limit_length (bov_categorization.py:296-307)       *)
(***************************************************************************)
\* mutant: the text is returned as it is
capitalize_first_kept(text) == text
capitalize_first(text) ==
    IF text = <<>> THEN <<>>
    ELSE <<Upper1(text[1])>> \o PyLower(Tail(text))

MaxLen == 26

\* mutant: the text is returned whole
limit_length_unbounded(text) == text
limit_length(text) ==
    IF text = <<>> THEN <<>>
    ELSE IF Len(text) > MaxLen THEN SubSeq(text, 1, MaxLen) ELSE text

(***************************************************************************)
(* extract_transactions_from_csv (bov_categorization.py:342-360): the part *)
(* after the table was read.  table is the sequence of rows read;          *)
(* the result is the returned DataFrame and whether an exception was       *)
(* caught (and reported) by the handler at lines 356-360.                  *)
(***************************************************************************)
RECURSIVE KeepDated(_)
\* line 349: the rows whose Date is not null
KeepDated(parsed) ==
    IF parsed = <<>> THEN <<>>
    ELSE IF Head(parsed).Date.k = "date" THEN <<Head(parsed)>> \o KeepDated(Tail(parsed))
    ELSE KeepDated(Tail(parsed))

extract_transactions_from_csv(table) ==
    LET dates == [i \in 1..Len(table) |-> parse_date_smart(table[i].Date)]
        parsed == [i \in 1..Len(table) |->
                      [Date |-> dates[i], Detail |-> table[i].Detail,
                       Amount |-> parse_number(table[i].Amount)]]
    IN  IF \E i \in 1..Len(table) : dates[i].k = "raise"
        THEN [df |-> <<>>, failed |-> TRUE]          \* except Exception: return pd.DataFrame()
        ELSE [df |-> KeepDated(parsed), failed |-> FALSE]

\* line 334: df.columns = df.columns.str.strip()
StrippedColumns(columns) == [i \in 1..Len(columns) |-> Strip(columns[i], Whitespace)]

\* the names tested at line 337
RequiredColumns ==
    { <<"D", "a", "t", "e">>, <<"D", "e", "t", "a", "i", "l">>, <<"A", "m", "o", "u", "n", "t">> }

\* line 337: none of the three names is missing from df.columns
HasRequiredColumns(columns) ==
    \A c \in RequiredColumns : \E i \in 1..Len(columns) : StrippedColumns(columns)[i] = c

\* extract_transactions_from_csv (lines 310-360) on the file f whose table
\* below the header line is table: without the marker line (lines 327-329)
\* or without the three column names (lines 337-339) an empty DataFrame is
\* returned after a message
ExtractedFrom(f, table) ==
    IF ~f.marker THEN [df |-> <<>>, failed |-> FALSE]
    ELSE IF ~HasRequiredColumns(f.columns) THEN [df |-> <<>>, failed |-> FALSE]
    ELSE extract_transactions_from_csv(table)

(***************************************************************************)
(* process_transactions (bov_categorization.py:363-399,                    *)
(* pdf_statement_processor.py:184-235)                                     *)
(***************************************************************************)
\* lines 371-372: the two filters
IsIncoming(amount) == GeZero(amount)
\* mutant: zero amounts are also taken as outgoing
IsOutgoing_or_zero(amount) == LtZero(amount) \/ amount = Zero
IsOutgoing(amount) == LtZero(amount)

\* str.isdigit()
IsDigit(x) == x # <<>> /\ AllIn(x, Digits \cup NonDecimalDigits)

\* a Counterparty value: text, or the int that int(x) gives for a string of
\* decimal digits (kept as its numeral without leading zeros); int(x) raises
\* ValueError for any other string
TextValue(x) == [t |-> "str", s |-> x]
IntValue(x) ==
    LET n == LStrip(x, {"0"})
    IN  IF x # <<>> /\ AllIn(x, Digits)
        THEN [t |-> "int", numeral |-> IF n = <<>> THEN <<"0">> ELSE n]
        ELSE [t |-> "raise", exc |-> "ValueError"]

\* lines 380-393: the columns derived from one Detail
DerivedColumns(detail) ==
    The({[Type |-> limit_length(capitalize_first(type)),
          Invoice |-> limit_length(capitalize_first(invoice)),
          Counterparty |-> The({IF IsDigit(x) THEN IntValue(x) ELSE TextValue(x) :
                                   x \in {limit_length(capitalize_first(counterparty))}})] :
            type \in {The({get_transaction_type(lower) : lower \in {PyLower(detail)}})},
            invoice \in {extract_invoice(detail)},
            counterparty \in {extract_counterparty(detail)}})

DateKey(date) == date.y * 10000 + date.m * 100 + date.d

IsSortedByDate(rs) ==
    \A i, j \in 1..Len(rs) : i < j => DateKey(rs[i].Date) <= DateKey(rs[j].Date)

Orderings(n) == {f \in [1..n -> 1..n] : \A i, j \in 1..n : f[i] = f[j] => i = j}

\* mutant: the frame is returned in its original order
sort_values_skipped(rs) == {rs}
\* lines 396-397: sort_values('Date').reset_index(drop=True).  The default
\* sort kind is not stable: every ordering of the rows that is sorted by
\* Date is a possible result.
sort_values(rs) ==
    {t \in {[i \in 1..Len(rs) |-> rs[f[i]]] : f \in Orderings(Len(rs))} : IsSortedByDate(t)}

(***************************************************************************)
(* The tests of get_transaction_type as an ordered table of (pattern,      *)
(* label) pairs, in the order of the source lines 95-196.                  *)
(***************************************************************************)
RuleTable ==
    <<
      [pat |-> << <<Phrase(<<w_cheque>>), Phrase(<<w_deposit>>)>> >>,
       label |-> Phrase(<<w_cheque, w_deposit>>)],
      [pat |-> << <<Phrase(<<w_cheque>>), Phrase(<<w_returned>>)>> >>,
       label |-> Phrase(<<w_cheque, w_returned, w_fee>>)],
      [pat |-> << <<Phrase(<<w_cheques, w_returned>>)>> >>,
       label |-> Phrase(<<w_cheque, w_returned>>)],
      [pat |-> << <<Phrase(<<w_cheque>>)>> >>,
       label |-> Phrase(<<w_cheque, w_payment>>)],
      [pat |-> << <<Phrase(<<w_account, w_to, w_account>>)>> >>,
       label |-> Phrase(<<w_account, w_transfer>>)],
      [pat |-> << <<Phrase(<<w_transfer, w_between, w_own, w_accounts>>)>> >>,
       label |-> Phrase(<<w_internal, w_transfer>>)],
      [pat |-> << <<Phrase(<<w_sct, w_inwards>>)>> >>,
       label |-> Phrase(<<w_incoming, w_sct, w_transfer>>)],
      [pat |-> << <<Phrase(<<w_sct, w_outwards>>)>> >>,
       label |-> Phrase(<<w_outgoing, w_sct, w_transfer>>)],
      [pat |-> << <<Phrase(<<w_instant, w_payments, w_inwards>>)>> >>,
       label |-> Phrase(<<w_instant, w_payment, w_in>>)],
      [pat |-> << <<Phrase(<<w_instant, w_payment>>)>> >>,
       label |-> Phrase(<<w_instant, w_payment>>)],
      [pat |-> << <<Phrase(<<w_fee>>)>> >>,
       label |-> Phrase(<<w_bank, w_fee>>)],
      [pat |-> << <<Phrase(<<w_charge>>)>> >>,
       label |-> Phrase(<<w_bank, w_charge>>)],
      [pat |-> << <<Phrase(<<w_administration, w_fee>>)>> >>,
       label |-> Phrase(<<w_administration, w_fee>>)],
      [pat |-> << <<Phrase(<<w_standing, w_instruction, w_charge>>)>> >>,
       label |-> Phrase(<<w_standing, w_instruction, w_charge>>)],
      [pat |-> << <<Phrase(<<w_standing, w_instruction>>)>> >>,
       label |-> Phrase(<<w_standing, w_instruction>>)],
      [pat |-> << <<Phrase(<<w_salary>>)>> >>,
       label |-> Phrase(<<w_salary>>)],
      [pat |-> << <<Phrase(<<w_employment>>)>> >>,
       label |-> Phrase(<<w_employment, w_payment>>)],
      [pat |-> << <<Phrase(<<w_stipendio>>)>>, <<Phrase(<<w_stipend>>)>> >>,
       label |-> Phrase(<<w_stipend_salary>>)],
      [pat |-> << <<Phrase(<<w_repayment>>), Phrase(<<w_principal>>)>> >>,
       label |-> Phrase(<<w_loan, w_principal, w_repayment>>)],
      [pat |-> << <<Phrase(<<w_repayment>>), Phrase(<<w_interest>>)>> >>,
       label |-> Phrase(<<w_loan, w_interest, w_repayment>>)],
      [pat |-> << <<Phrase(<<w_loan>>)>> >>,
       label |-> Phrase(<<w_loan>>)],
      [pat |-> << <<Phrase(<<w_tax>>)>> >>,
       label |-> Phrase(<<w_tax, w_payment>>)],
      [pat |-> << <<Phrase(<<w_vat>>)>> >>,
       label |-> Phrase(<<w_vat, w_payment>>)],
      [pat |-> << <<Phrase(<<w_customs>>)>> >>,
       label |-> Phrase(<<w_customs, w_payment>>)],
      [pat |-> << <<Phrase(<<w_government>>)>>, <<Phrase(<<w_gov>>)>> >>,
       label |-> Phrase(<<w_government, w_payment>>)],
      [pat |-> << <<Phrase(<<w_atm>>), Phrase(<<w_cash>>), Phrase(<<w_deposit>>)>> >>,
       label |-> Phrase(<<w_atm, w_cash, w_deposit>>)],
      [pat |-> << <<Phrase(<<w_24x7, w_pay>>)>> >>,
       label |-> Phrase(<<w_third, w_party, w_payment>>)],
      [pat |-> << <<Phrase(<<w_24x7, w_bill>>)>> >>,
       label |-> Phrase(<<w_bill, w_payment>>)],
      [pat |-> << <<Phrase(<<w_24x7, w_mobile, w_pay>>)>> >>,
       label |-> Phrase(<<w_mobile, w_payment>>)],
      [pat |-> << <<Phrase(<<w_sdd, w_outwards>>)>> >>,
       label |-> Phrase(<<w_direct, w_debit, w_out>>)],
      [pat |-> << <<Phrase(<<w_mapfre>>)>>, <<Phrase(<<w_msv, w_life>>)>>, <<Phrase(<<w_insurance>>)>> >>,
       label |-> Phrase(<<w_insurance, w_payment>>)],
      [pat |-> << <<Phrase(<<w_hotel>>)>> >>,
       label |-> Phrase(<<w_hotel, w_payment>>)],
      [pat |-> << <<Phrase(<<w_catering>>)>> >>,
       label |-> Phrase(<<w_catering, w_payment>>)],
      [pat |-> << <<Phrase(<<w_butcher>>)>>, <<Phrase(<<w_food>>)>>, <<Phrase(<<w_supermarket>>)>>, <<Phrase(<<w_restaurant>>)>>, <<Phrase(<<w_eat>>)>> >>,
       label |-> Phrase(<<w_food, w_amp, w_retail>>)],
      [pat |-> << <<Phrase(<<w_retail>>)>> >>,
       label |-> Phrase(<<w_retail, w_payment>>)],
      [pat |-> << <<Phrase(<<w_electricity>>)>>, <<Phrase(<<w_water>>)>>, <<Phrase(<<w_gas>>)>>, <<Phrase(<<w_utility>>)>> >>,
       label |-> Phrase(<<w_utility, w_payment>>)],
      [pat |-> << <<Phrase(<<w_refund>>)>> >>,
       label |-> Phrase(<<w_refund>>)],
      [pat |-> << <<Phrase(<<w_deposit>>)>> >>,
       label |-> Phrase(<<w_deposit>>)],
      [pat |-> << <<Phrase(<<w_withdrawal>>)>> >>,
       label |-> Phrase(<<w_withdrawal>>)]
    >>

(***************************************************************************)
(* Bounds and input sets of the amount parser.                             *)
(***************************************************************************)
MaxAmountLen == 4

AmountAlphabet == {"0", "1", ".", ",", "-", "(", ")", "€", " ", "n", "a"}

\* the amount strings named in the documentation, and forms of float() the
\* alphabet does not reach
ExampleAmounts ==
    { <<"€", "1", ",", "2", "3", "4", ".", "5", "6">>,
      <<"n", "o", "t", " ", "a", " ", "n", "u", "m", "b", "e", "r">>,
      <<"(", "1", "2", "3", ".", "4", "5", ")">>,
      <<"-", "1", "2", "3", ".", "4", "5">>,
      <<"1", "2", "3", ".", "4", "5", "-">>,
      <<"\"", "1", ",", "2", "3", "4", ".", "5", "6", "\"">>,
      <<"1", ",", "5", "0", "0", ".", "0", "0">>,
      <<"(", "1", "2", ".", "5", "0", ")">>,
      <<"i", "n", "f">>,
      <<"1", "e", "+", "2">> }

AmountStrings == SeqsUpTo(AmountAlphabet, MaxAmountLen) \cup ExampleAmounts

\* cells that are not str: a missing cell (float nan) and a numeric cell
FloatCells == {FloatCell(NaN), FloatCell(Num(125, 1)), FloatCell(Zero)}

AmountCells == {StrCell(s) : s \in AmountStrings} \cup FloatCells

NumIdle == num_in = StrCell(<<>>) /\ num_out = NoResult
DateIdle == date_in = <<>> /\ date_out = NoResult
DetIdle == det_in = <<>> /\ det_out = NoResult
ProcIdle ==
    /\ rows = <<>> /\ df = <<>> /\ csv_failed = FALSE
    /\ incoming = <<>> /\ outgoing = <<>> /\ pc = "idle"
ExtIdle == ext_in = <<>> /\ inv_out = NoResult /\ cp_out = NoResult
\* a statement file as main expects it
GoodFile == [exists |-> TRUE, marker |-> TRUE,
             columns |-> << <<"D", "a", "t", "e">>, <<"D", "e", "t", "a", "i", "l">>,
                            <<"A", "m", "o", "u", "n", "t">> >>]
MainIdle == file = GoodFile /\ exit_code = NoResult /\ written = FALSE
PdfIdle ==
    /\ lines = <<>> /\ cursor = 1 /\ in_transactions = FALSE
    /\ current_transaction = [k |-> "None"] /\ previous_line = <<>>
    /\ transactions = <<>> /\ result = NoResult

(***************************************************************************)
(* Specification of the amount parser: one call of parse_number on an      *)
(* arbitrary cell.                                                         *)
(***************************************************************************)
InitNum ==
    /\ PdfIdle
    /\ num_in \in AmountCells
    /\ num_out = NoResult
    /\ DateIdle
    /\ DetIdle
    /\ ProcIdle
    /\ ExtIdle
    /\ MainIdle

ParseNumberCall ==
    /\ num_out = NoResult
    /\ num_out' = parse_number(num_in)
    /\ UNCHANGED <<num_in, dateVars, detVars, procVars, extVars, mainVars, pdfVars>>

NextNum == ParseNumberCall

SpecNum == InitNum /\ [][NextNum]_vars

(***************************************************************************)
(* Bounds and input sets of the date parser.                               *)
(***************************************************************************)
MaxMonth == 13
MaxDay == 32
LastYear == 2025

DigitChar(n) ==
    CASE n = 0 -> "0" [] n = 1 -> "1" [] n = 2 -> "2" [] n = 3 -> "3" [] n = 4 -> "4"
      [] n = 5 -> "5" [] n = 6 -> "6" [] n = 7 -> "7" [] n = 8 -> "8" [] n = 9 -> "9"

\* decimal numeral of n without padding
RECURSIVE DecStr(_)
DecStr(n) == IF n < 10 THEN <<DigitChar(n)>> ELSE Append(DecStr(n \div 10), DigitChar(n % 10))

\* the one- and two-digit numerals of n
Numerals2(n) == IF n < 10 THEN {DecStr(n), <<"0">> \o DecStr(n)} ELSE {DecStr(n)}

\* the four-digit numeral of y
Numeral4(y) ==
    <<DigitChar(y \div 1000), DigitChar((y \div 100) % 10), DigitChar((y \div 10) % 10),
      DigitChar(y % 10)>>

YearsTried == {0} \cup (2024..LastYear)
MonthStrings == UNION {Numerals2(m) : m \in 0..MaxMonth}
DayStrings == UNION {Numerals2(d) : d \in 0..MaxDay}

YearFirstStrings ==
    { Numeral4(y) \o <<s1>> \o m \o <<s2>> \o d :
        y \in YearsTried, s1 \in DateSeps, m \in MonthStrings, s2 \in DateSeps, d \in DayStrings }

DayFirstStrings ==
    { d \o <<s1>> \o m \o <<s2>> \o Numeral4(y) :
        y \in YearsTried, s1 \in DateSeps, m \in MonthStrings, s2 \in DateSeps, d \in DayStrings }

\* "D Month YYYY", the form the day-first fallback parse is for
TextualStrings ==
    { DecStr(d) \o <<" ">> \o MonthNames[m] \o <<" ">> \o Numeral4(y) :
        d \in {1, 2, 29, 30, 31}, m \in {2, 9}, y \in 2024..LastYear }

OtherDateStrings ==
    { <<>>, <<" ">>, <<"n", "a", "n">>, <<"g", "a", "r", "b", "a", "g", "e">>,
      <<" ", "2", "0", "2", "5", "/", "0", "9", "/", "3", "0", " ">> }

DateStrings == YearFirstStrings \cup DayFirstStrings \cup TextualStrings \cup OtherDateStrings

(***************************************************************************)
(* Specification of the date parser: one call of parse_date_smart.  A      *)
(* missing cell reaches the parser as the text "nan" (str(date_str)).      *)
(***************************************************************************)
InitDate ==
    /\ PdfIdle
    /\ date_in \in DateStrings
    /\ date_out = NoResult
    /\ NumIdle
    /\ DetIdle
    /\ ProcIdle
    /\ ExtIdle
    /\ MainIdle

ParseDateCall ==
    /\ date_out = NoResult
    /\ date_out' = parse_date_smart(date_in)
    /\ UNCHANGED <<date_in, numVars, detVars, procVars, extVars, mainVars, pdfVars>>

NextDate == ParseDateCall

SpecDate == InitDate /\ [][NextDate]_vars

(***************************************************************************)
(* Claims about parse_date_smart.                                          *)
(***************************************************************************)
\* the string has the year-first or day-first digit shape
HasDateShape(s) ==
    LET t == Strip(s, Whitespace) IN MatchYearFirst(t) # <<>> \/ MatchDayFirst(t) # <<>>

\* year, month and day of a string of date shape
ShapeYMD(s) ==
    LET t == Strip(s, Whitespace)
        ymd1 == MatchYearFirst(t)
        dmy == MatchDayFirst(t)
    IN  IF ymd1 # <<>> THEN <<IntOf(ymd1[1]), IntOf(ymd1[2]), IntOf(ymd1[3])>>
        ELSE <<IntOf(dmy[3]), IntOf(dmy[2]), IntOf(dmy[1])>>

OutOfCalendar(s) ==
    LET ymd == ShapeYMD(s)
    IN  ymd[2] \notin 1..12 \/ ymd[3] < 1 \/ ymd[3] > DaysInMonth(ymd[1], ymd[2])

\* C8: parse_date_smart returns a calendar date or none (the null timestamp
\* counted as none) and never raises; a string of date shape whose month or
\* day is out of range gives none.
C8_DateOrNoneNeverRaises ==
    date_out # NoResult =>
        /\ date_out.k \in {"date", "None", "NaT"}
        /\ (HasDateShape(date_in) /\ OutOfCalendar(date_in)) => date_out = None

\* the positions of the separators / and - in s
SepAt(s) == {i \in 1..Len(s) : s[i] \in {"/", "-"}}

\* the three fields of s around its two separators, <<>> when s has not two
Fields(s) ==
    IF Cardinality(SepAt(s)) # 2 THEN <<>>
    ELSE LET i == CHOOSE i \in SepAt(s) : \A j \in SepAt(s) : i <= j
             j == CHOOSE j \in SepAt(s) : \A i2 \in SepAt(s) : i2 <= j
         IN  <<SubSeq(s, 1, i - 1), SubSeq(s, i + 1, j - 1), SubSeq(s, j + 1, Len(s))>>

IsNumeral(f, lens) == Len(f) \in lens /\ AllIn(f, Digits)

\* s is written year, month, day (four digits, then one or two, twice)
YearFirstForm(s) ==
    /\ Fields(s) # <<>>
    /\ IsNumeral(Fields(s)[1], {4})
    /\ IsNumeral(Fields(s)[2], {1, 2})
    /\ IsNumeral(Fields(s)[3], {1, 2})

\* s is written day, month, year
DayFirstForm(s) ==
    /\ Fields(s) # <<>>
    /\ IsNumeral(Fields(s)[1], {1, 2})
    /\ IsNumeral(Fields(s)[2], {1, 2})
    /\ IsNumeral(Fields(s)[3], {4})

ValidCalendarDate(y, m, d) ==
    y \in 1..9999 /\ m \in 1..12 /\ d \in 1..DaysInMonth(y, m)

\* the date that the fields y, m, d denote when it is a calendar date
DateOfFields(y, m, d) ==
    IF ValidCalendarDate(IntOf(y), IntOf(m), IntOf(d))
    THEN Date(IntOf(y), IntOf(m), IntOf(d))
    ELSE None

\* C17: every valid calendar date written year/month/day or day/month/year,
\* with / or - and a month and day of one or two digits, parses to that date
\* (a string that starts with the four-digit year is read year first); a
\* string of neither form that is no textual date gives none (the null
\* timestamp counted as none).
C17_BothOrdersParse ==
    date_out # NoResult =>
        /\ (YearFirstForm(date_in)
              /\ DateOfFields(Fields(date_in)[1], Fields(date_in)[2], Fields(date_in)[3]) # None)
            => date_out = DateOfFields(Fields(date_in)[1], Fields(date_in)[2], Fields(date_in)[3])
        /\ (DayFirstForm(date_in)
              /\ DateOfFields(Fields(date_in)[3], Fields(date_in)[2], Fields(date_in)[1]) # None)
            => date_out = DateOfFields(Fields(date_in)[3], Fields(date_in)[2], Fields(date_in)[1])
        /\ (/\ ~YearFirstForm(Strip(date_in, Whitespace))
            /\ ~DayFirstForm(Strip(date_in, Whitespace))
            /\ Strip(date_in, Whitespace) \notin TextualStrings)
            => date_out.k \in {"None", "NaT"}

\* the day-first spelling with a one-digit day and month of 1 September 2025,
\* and its year-first spelling with the other separator, give the same date
C17_Witness ==
    /\ date_in \in { <<"1", "-", "9", "-", "2", "0", "2", "5">>,
                      <<"2", "0", "2", "5", "/", "0", "9", "/", "0", "1">> }
    /\ date_out = Date(2025, 9, 1)

(***************************************************************************)
(* Bounds and input sets of the classifier.                                *)
(***************************************************************************)
MaxDetailWords == 2

w_coffee == <<"C", "o", "f", "f", "e", "e">>
w_xyz == <<"x", "y", "z">>

DetailWords ==
    { w_cheque, w_cheques, w_returned, w_deposit, w_fee, w_salary, w_tax,
      PyUpper(w_cheque), w_coffee, w_xyz }

\* the descriptions named in the documentation
d_salary_example ==
    Phrase(<<PyUpper(w_salary), PyUpper(w_payment), <<"A", "B", "C">>, <<"L", "T", "D">>,
             <<"R", "E", "F", ":">>, <<"1", "2", "3", "4", "5">>>>)
d_cheques_returned == Phrase(<<w_cheques, w_returned>>)
d_cheque_returned_fee == Phrase(<< <<"C">> \o Tail(w_cheque), w_returned, w_fee>>)

\* for every test of the chain, the parts of each alternative joined by spaces
PatternDetails ==
    UNION { {Phrase(RuleTable[i].pat[a]) : a \in 1..Len(RuleTable[i].pat)} :
              i \in 1..Len(RuleTable) }

ExampleDetails ==
    {d_salary_example, d_cheques_returned, d_cheque_returned_fee, <<" ">>}

DetailStrings ==
    {Phrase(ws) : ws \in SeqsUpTo(DetailWords, MaxDetailWords)}
        \cup PatternDetails \cup ExampleDetails

(***************************************************************************)
(* Specification of the classifier: one call of get_transaction_type.      *)
(***************************************************************************)
InitDet ==
    /\ PdfIdle
    /\ det_in \in DetailStrings
    /\ det_out = NoResult
    /\ NumIdle
    /\ DateIdle
    /\ ProcIdle
    /\ ExtIdle
    /\ MainIdle

GetTransactionTypeCall ==
    /\ det_out = NoResult
    /\ det_out' = get_transaction_type(det_in)
    /\ UNCHANGED <<det_in, numVars, dateVars, procVars, extVars, mainVars, pdfVars>>

NextDet == GetTransactionTypeCall

SpecDet == InitDet /\ [][NextDet]_vars

(***************************************************************************)
(* Bounds and input sets of a run over a CSV table.                        *)
(***************************************************************************)
MaxRows == 2

d_2025_09_30 == <<"2", "0", "2", "5", "/", "0", "9", "/", "3", "0">>
d_01_09_2025 == <<"0", "1", "/", "0", "9", "/", "2", "0", "2", "5">>
d_2025_13_01 == <<"2", "0", "2", "5", "/", "1", "3", "/", "0", "1">>
d_garbage == <<"g", "a", "r", "b", "a", "g", "e">>

RunDates == {d_2025_09_30, d_01_09_2025, d_2025_13_01, d_garbage}

a_1500 == <<"1", ",", "5", "0", "0", ".", "0", "0">>
a_paren_12_50 == <<"(", "1", "2", ".", "5", "0", ")">>
a_paren_nan == <<"(", "n", "a", "n", ")">>
a_abc == <<"a", "b", "c">>

w_mediterranean == <<"M", "e", "d", "i", "t", "e", "r", "r", "a", "n", "e", "a", "n">>
w_brokers == <<"B", "r", "o", "k", "e", "r", "s">>
d_long_company ==
    Phrase(<<w_invoice, <<"4", "1">>, w_mediterranean, <<"I">> \o Tail(w_insurance),
             w_brokers, <<"L">> \o Tail(w_limited)>>)

\* a tax reference of 30 digits
digits_30 ==
    [i \in 1..30 |-> <<"1", "2", "3", "4", "5", "6", "7", "8", "9", "0">>[((i - 1) % 10) + 1]]
d_tax_ref_30 == Phrase(<<PyUpper(w_administratio), digits_30>>)

\* a description that is one superscript digit
d_superscript == <<"²">>

RunDetails ==
    {d_salary_example, d_cheque_returned_fee, d_long_company, d_tax_ref_30, d_superscript}

\* the statement lines tried: a description with its amount text
RunEntries ==
    {<<d_salary_example, a_1500>>, <<d_long_company, a_paren_12_50>>,
     <<d_cheque_returned_fee, a_paren_nan>>, <<d_cheque_returned_fee, a_abc>>,
     <<d_tax_ref_30, a_1500>>, <<d_superscript, a_1500>>, <<d_long_company, a_1500>>}

RunRows ==
    {[Date |-> d, Detail |-> e[1], Amount |-> StrCell(e[2])] : d \in RunDates, e \in RunEntries}

\* the derived columns of every description of the run, computed once
DerivedTable == {<<t, DerivedColumns(t)>> : t \in RunDetails}
DerivedOf(t) == (CHOOSE q \in DerivedTable : q[1] = t)[2]

\* mutant: the invoice reference is kept for incoming rows only
DerivedRow_invoice_by_sign(r) ==
    [Date |-> r.Date, Detail |-> r.Detail, Amount |-> r.Amount,
     Type |-> DerivedOf(r.Detail).Type,
     Invoice |-> IF IsOutgoing(r.Amount) THEN <<>> ELSE DerivedOf(r.Detail).Invoice,
     Counterparty |-> DerivedOf(r.Detail).Counterparty]
\* lines 380-393 on one row: the three columns are applied to its Detail
DerivedRow(r) ==
    [Date |-> r.Date, Detail |-> r.Detail, Amount |-> r.Amount,
     Type |-> DerivedOf(r.Detail).Type,
     Invoice |-> DerivedOf(r.Detail).Invoice,
     Counterparty |-> DerivedOf(r.Detail).Counterparty]

RECURSIVE WithDerived(_)
WithDerived(rs) ==
    IF rs = <<>> THEN <<>>
    ELSE <<DerivedRow(rs[1])>> \o WithDerived(Tail(rs))

(***************************************************************************)
(* Specification of a run: the table is read, extract_transactions_from_csv*)
(* returns the DataFrame, process_transactions partitions and sorts it.    *)
(***************************************************************************)
InitRun ==
    /\ PdfIdle
    /\ rows \in SeqsUpTo(RunRows, MaxRows)
    /\ df = <<>>
    /\ csv_failed = FALSE
    /\ incoming = <<>>
    /\ outgoing = <<>>
    /\ pc = "read"
    /\ NumIdle
    /\ DateIdle
    /\ DetIdle
    /\ ExtIdle
    /\ MainIdle

ExtractTransactionsFromCsv ==
    /\ pc = "read"
    /\ LET r == ExtractedFrom(file, rows)
       IN  /\ df' = r.df
           /\ csv_failed' = r.failed
    /\ pc' = "extracted"
    /\ UNCHANGED <<rows, incoming, outgoing, numVars, dateVars, detVars, extVars, mainVars, pdfVars>>

RowsOf(rs) == {rs[i] : i \in 1..Len(rs)}

ProcessTransactions ==
    /\ pc = "extracted"
    /\ IF df = <<>>                                   \* line 367: df.empty
       THEN incoming' = <<>> /\ outgoing' = <<>>
            /\ pc' = "processed"
       ELSE \E inc \in {WithDerived(SelectSeq(df, LAMBDA r : IsIncoming(r.Amount)))},
               out \in {WithDerived(SelectSeq(df, LAMBDA r : IsOutgoing(r.Amount)))} :
                IF \E r \in RowsOf(inc) \cup RowsOf(out) : r.Counterparty.t = "raise"
                THEN \* line 392: int(x) raised, nothing is returned
                     incoming' = <<>> /\ outgoing' = <<>> /\ pc' = "raised"
                ELSE /\ incoming' \in sort_values(inc)
                     /\ outgoing' \in sort_values(out)
                     /\ pc' = "processed"
    /\ UNCHANGED <<rows, df, csv_failed, numVars, dateVars, detVars, extVars, mainVars, pdfVars>>

NextRun == ExtractTransactionsFromCsv \/ ProcessTransactions

SpecRun == InitRun /\ [][NextRun]_vars

(***************************************************************************)
(* Specification of main (bov_categorization.py:559-595) given an input    *)
(* path: the path is tested, the file is read, the transactions are        *)
(* processed and exported.  An exception that no handler catches ends the  *)
(* process with exit status 1.                                             *)
(***************************************************************************)
Exit(code) == [k |-> "exit", code |-> code]

h_Date == <<"D", "a", "t", "e">>
h_Detail == <<"D", "e", "t", "a", "i", "l">>
h_Amount == <<"A", "m", "o", "u", "n", "t">>
h_Balance == <<"B", "a", "l", "a", "n", "c", "e">>

\* the header lines tried: the three names as the code spells them, with
\* surrounding blanks and a further column, in other letter cases, and with
\* a name missing
Headers ==
    { <<h_Date, h_Detail, h_Amount>>,
      <<<<" ">> \o h_Date, h_Detail \o <<" ">>, <<" ">> \o h_Amount \o <<" ">>, h_Balance>>,
      <<PyLower(h_Date), PyLower(h_Detail), PyLower(h_Amount)>>,
      <<h_Date, h_Detail, <<" ">> \o PyUpper(h_Amount) \o <<" ">>>>,
      <<h_Date, h_Detail, h_Balance>>,
      <<h_Detail, h_Amount>> }

MissingFile == [exists |-> FALSE, marker |-> FALSE, columns |-> <<>>]

Files ==
    {MissingFile}
    \cup {[exists |-> TRUE, marker |-> FALSE, columns |-> h] : h \in {<<h_Date, h_Detail, h_Amount>>}}
    \cup {[exists |-> TRUE, marker |-> TRUE, columns |-> h] : h \in Headers}

\* the table rows tried by main
MainRows ==
    { r \in RunRows :
        /\ r.Date \in {d_2025_09_30, d_garbage}
        /\ <<r.Detail, r.Amount.s>> \in {<<d_salary_example, a_1500>>, <<d_long_company, a_paren_12_50>>,
                                          <<d_superscript, a_1500>>} }

InitMain ==
    /\ PdfIdle
    /\ file \in Files
    /\ rows \in (IF file.exists THEN SeqsUpTo(MainRows, MaxRows) ELSE {<<>>})
    /\ df = <<>>
    /\ csv_failed = FALSE
    /\ incoming = <<>>
    /\ outgoing = <<>>
    /\ pc = "start"
    /\ exit_code = NoResult
    /\ written = FALSE
    /\ NumIdle
    /\ DateIdle
    /\ DetIdle
    /\ ExtIdle

\* lines 568-570: Path(csv_path).exists()
CheckPath ==
    /\ pc = "start"
    /\ IF file.exists
       THEN pc' = "read" /\ UNCHANGED exit_code
       ELSE pc' = "exited" /\ exit_code' = Exit(1)
    /\ UNCHANGED <<rows, df, csv_failed, incoming, outgoing, file, written,
                   numVars, dateVars, detVars, extVars, pdfVars>>

\* lines 578-580: df.empty
ExitOnEmpty ==
    /\ pc = "extracted"
    /\ df = <<>>
    /\ pc' = "exited"
    /\ exit_code' = Exit(1)
    /\ UNCHANGED <<rows, df, csv_failed, incoming, outgoing, file, written,
                   numVars, dateVars, detVars, extVars, pdfVars>>

\* line 586, reached with a DataFrame that is not empty
Categorize ==
    /\ df # <<>>
    /\ ProcessTransactions

\* lines 592-595: export_to_excel writes the workbook and main returns
ExportToExcel ==
    /\ pc = "processed"
    /\ written' = TRUE
    /\ pc' = "exited"
    /\ exit_code' = Exit(0)
    /\ UNCHANGED <<rows, df, csv_failed, incoming, outgoing, file,
                   numVars, dateVars, detVars, extVars, pdfVars>>

\* the exception raised at line 586 is caught nowhere: traceback, status 1
UncaughtException ==
    /\ pc = "raised"
    /\ pc' = "exited"
    /\ exit_code' = Exit(1)
    /\ UNCHANGED <<rows, df, csv_failed, incoming, outgoing, file, written,
                   numVars, dateVars, detVars, extVars, pdfVars>>

NextMain ==
    \/ CheckPath
    \/ ExtractTransactionsFromCsv
    \/ ExitOnEmpty
    \/ Categorize
    \/ ExportToExcel
    \/ UncaughtException

SpecMain == InitMain /\ [][NextMain]_vars

(***************************************************************************)
(* Bounds and input sets of the extractors, and the specification of one   *)
(* call of extract_invoice and one call of extract_counterparty on the     *)
(* same description.                                                       *)
(***************************************************************************)
MaxExtWords == 2

ExtWords ==
    { w_invoice, <<"I", "N", "V">>, <<"F">> \o Tail(w_fatt) \o <<"u", "r", "a">>, w_fatt, <<"n", "r">>, <<"n">>,
      <<"1", "2">>, <<"0", "0", "7">>, PyUpper(w_administratio), w_administration,
      <<"L", "t", "d">>, <<"M", "r">>, <<"S", "m", "i", "t", "h">>, w_xyz }

x_inv12 == <<"i", "n", "v", "1", "2">>
x_fattnr7 == <<"f", "a", "t", "t", "n", "r", "7">>
x_two_tokens == <<"R", "E", "F", " ", "i", "n", "v", "o", "i", "c", "e", " ", "x", " ", "I", "N", "V", " ", "5", " ", "i", "n", "v", " ", "6">>
x_tax_among_names == <<"M", "r", " ", "S", "m", "i", "t", "h", " ", "A", "B", "C", " ", "L", "t", "d", " ", "A", "D", "M", "I", "N", "I", "S", "T", "R", "A", "T", "I", "O", " ", " ", "4", "2", " ", "s", "d", "d", " ", "o", "u", "t", "w", "a", "r", "d", "s", " ", "f", "e", "e">>
x_administration_42 == <<"A", "D", "M", "I", "N", "I", "S", "T", "R", "A", "T", "I", "O", "N", " ", "4", "2">>
x_blank == <<" ", "\t", " ">>
x_eur_person == <<"x", "y", "z", " ", "e", "u", "r", " ", "M", "r", " ", "S", "m", "i", "t", "h">>
x_upper_person == <<"A", "C", "M", "E", " ", "M", "r", " ", "S", "m", "i", "t", "h">>
x_capitalized_upper == <<"F", "a", "t", "t", "u", "r", "a", " ", "S", "m", "i", "t", "h", " ", "A", "C", "M", "E">>
x_unprocessed_charge == Phrase(<<w_unprocessed, w_standing, w_instruction, w_charge, w_xyz>>)
x_24x7_third_parties == Phrase(<<w_24x7, w_pay, w_third, w_parties, <<"M", "r">>, <<"S", "m", "i", "t", "h">>>>)
x_sct_instant == Phrase(<<w_xyz, PyUpper(w_sct), w_instant, w_payments, w_inwards, <<"M", "r">>, <<"S", "m", "i", "t", "h">>>>)
x_order_same_day == Phrase(<<w_payment, w_order, w_outwards, w_same, w_day, w_xyz, w_sct, w_outwards>>)

ExtExamples ==
    { <<>>, <<" ">>, x_blank, d_salary_example, d_long_company, d_tax_ref_30, d_superscript,
      x_inv12, x_fattnr7, x_two_tokens, x_tax_among_names, x_administration_42,
      x_eur_person, x_upper_person, x_capitalized_upper,
      x_unprocessed_charge, x_24x7_third_parties, x_sct_instant, x_order_same_day }

ExtDetails == {Phrase(ws) : ws \in SeqsUpTo(ExtWords, MaxExtWords)} \cup ExtExamples

InitExt ==
    /\ PdfIdle
    /\ ext_in \in ExtDetails
    /\ inv_out = NoResult
    /\ cp_out = NoResult
    /\ NumIdle
    /\ DateIdle
    /\ DetIdle
    /\ ProcIdle
    /\ MainIdle

\* the value a call returned
Returned(v) == [k |-> "returned", v |-> v]

ExtractInvoiceCall ==
    /\ inv_out = NoResult
    /\ inv_out' = Returned(extract_invoice(ext_in))
    /\ UNCHANGED <<ext_in, cp_out, numVars, dateVars, detVars, procVars, mainVars, pdfVars>>

ExtractCounterpartyCall ==
    /\ cp_out = NoResult
    /\ cp_out' = Returned(extract_counterparty(ext_in))
    /\ UNCHANGED <<ext_in, inv_out, numVars, dateVars, detVars, procVars, mainVars, pdfVars>>

NextExt == ExtractInvoiceCall \/ ExtractCounterpartyCall

SpecExt == InitExt /\ [][NextExt]_vars

(***************************************************************************)
(* Claims about parse_number.                                              *)
(***************************************************************************)
NumDone == num_out # NoResult /\ num_in.t = "str"

\* the text left after removing quotes, currency symbols, whitespace, sign
\* markers and commas
CleanedText(s) ==
    RemoveChars(s, {"\"", "€", "$", "£", "-", "(", ")", ","} \cup Whitespace)

\* digits with at most one decimal point and at least one digit
IsDecimalText(s) ==
    /\ AllIn(s, Digits \cup {"."})
    /\ Cardinality({i \in 1..Len(s) : s[i] = "."}) <= 1
    /\ \E i \in 1..Len(s) : s[i] \in Digits

\* C6: for every input string parse_number returns a finite number, and the
\* result is exactly 0.0 when the cleaned text is empty or not a decimal number.
C6_FiniteAndZeroOnGarbage ==
    NumDone =>
        /\ IsFinite(num_out)
        /\ ~IsDecimalText(CleanedText(num_in.s)) => num_out = Zero

\* an unsigned decimal string: optional currency symbol, then digits with
\* thousands commas, then optionally a point and digits
IsUnsignedBody(b) ==
    /\ b # <<>>
    /\ b[1] \in Digits
    /\ AllIn(b, Digits \cup {",", "."})
    /\ Cardinality({i \in 1..Len(b) : b[i] = "."}) <= 1
    /\ \A i, j \in 1..Len(b) : (b[i] = "." /\ b[j] = ",") => j < i

IsUnsignedDecimal(d) ==
    \/ IsUnsignedBody(d)
    \/ d # <<>> /\ d[1] \in {"€", "$", "£"} /\ IsUnsignedBody(Tail(d))

IsNonZeroText(d) == \E i \in 1..Len(d) : d[i] \in Digits \ {"0"}

IsParenForm(s) ==
    Len(s) >= 2 /\ s[1] = "(" /\ s[Len(s)] = ")" /\ IsUnsignedDecimal(SubSeq(s, 2, Len(s) - 1))
IsLeadingMinusForm(s) == s # <<>> /\ s[1] = "-" /\ IsUnsignedDecimal(Tail(s))
IsTrailingMinusForm(s) ==
    s # <<>> /\ s[Len(s)] = "-" /\ IsUnsignedDecimal(SubSeq(s, 1, Len(s) - 1))
IsMarkedForm(s) == IsParenForm(s) \/ IsLeadingMinusForm(s) \/ IsTrailingMinusForm(s)

\* the d of a marked form
Unmarked(s) ==
    IF IsParenForm(s) THEN SubSeq(s, 2, Len(s) - 1)
    ELSE IF IsLeadingMinusForm(s) THEN Tail(s)
    ELSE SubSeq(s, 1, Len(s) - 1)

\* C7: "(d)", "-d" and "d-" all parse to the negation of parse_number(d), for
\* every unsigned decimal d; the result is negative exactly when a marker is
\* present and d is non-zero.
C7_MarkersNegate ==
    NumDone =>
        /\ IsMarkedForm(num_in.s) =>
              /\ num_out = Neg(parse_number(StrCell(Unmarked(num_in.s))))
              /\ LtZero(num_out) <=> IsNonZeroText(Unmarked(num_in.s))
        /\ IsUnsignedDecimal(num_in.s) => IsFinite(num_out) /\ GeZero(num_out)

C7_Witness ==
    /\ NumDone
    /\ num_in.s = <<"1", "2", "3", ".", "4", "5", "-">>
    /\ num_out = Num(-12345, 2)

(***************************************************************************)
(* Claims about get_transaction_type.                                      *)
(***************************************************************************)
\* indices of the table rows whose pattern matches the lowercased description
MatchingRules(detail) ==
    {i \in 1..Len(RuleTable) : ReSearch(RuleTable[i].pat, PyLower(detail))}

MinOf(S) == CHOOSE i \in S : \A j \in S : i <= j

\* C4: get_transaction_type returns the label of the first rule, in the fixed
\* order, whose pattern matches the lowercased description, and "other" when
\* none matches (the empty description included); the label is never empty.
C4_FirstMatchWins ==
    det_out # NoResult =>
        /\ det_out # <<>>
        /\ det_out = IF MatchingRules(det_in) = {} THEN Phrase(<<w_other>>)
                     ELSE RuleTable[MinOf(MatchingRules(det_in))].label
        /\ det_in = <<>> => det_out = Phrase(<<w_other>>)

\* two rules match and the earlier one, which is not the first of the chain, wins
C4_Witness ==
    /\ det_out # NoResult
    /\ det_in = Phrase(<<w_salary, w_tax>>)
    /\ Cardinality(MatchingRules(det_in)) = 2
    /\ det_out = Phrase(<<w_salary>>)

\* C5: classify("cheques returned") yields "cheque returned" and not
\* "cheque payment".
C5_ChequesReturned ==
    (det_out # NoResult /\ det_in = d_cheques_returned) =>
        /\ det_out = Phrase(<<w_cheque, w_returned>>)
        /\ det_out # Phrase(<<w_cheque, w_payment>>)

(***************************************************************************)
(* Claims about a run: extraction, partition, derived columns, sort.       *)
(***************************************************************************)
Processed == pc = "processed"

Proj(r) == [Date |-> r.Date, Detail |-> r.Detail, Amount |-> r.Amount]
ProjSeq(rs) == [i \in 1..Len(rs) |-> Proj(rs[i])]
Count(rs, x) == Cardinality({i \in 1..Len(rs) : rs[i] = x})
RangeOf(rs) == {rs[i] : i \in 1..Len(rs)}

\* C1: every Incoming row has Amount >= 0 and every Outgoing row has
\* Amount < 0; a row whose amount is zero (also when defaulted from an
\* unparseable amount string) is in Incoming.
C1_PartitionSigns ==
    Processed =>
        /\ \A i \in 1..Len(incoming) : incoming[i].Amount.k = "num" /\ incoming[i].Amount.m >= 0
        /\ \A i \in 1..Len(outgoing) : outgoing[i].Amount.k = "num" /\ outgoing[i].Amount.m < 0
        /\ \A i \in 1..Len(df) :
              df[i].Amount = Zero => \E j \in 1..Len(incoming) : Proj(incoming[j]) = df[i]

\* a row with an unparseable amount string is in Incoming with amount zero,
\* next to a negative row in Outgoing
C1_Witness ==
    /\ Processed
    /\ Len(rows) = 2 /\ rows[1].Amount = StrCell(a_abc) /\ rows[2].Amount = StrCell(a_paren_12_50)
    /\ Len(incoming) = 1 /\ incoming[1].Amount = Zero
    /\ Len(outgoing) = 1 /\ outgoing[1].Amount = Num(-125, 1)

\* C2: Incoming and Outgoing are disjoint and together hold, row for row
\* (same Date, Detail, Amount), exactly the rows whose date parsed, whatever
\* the amount string parsed to: none lost, duplicated or altered.
C2_PartitionsCoverInput ==
    Processed =>
        \A x \in RangeOf(df) \cup RangeOf(ProjSeq(incoming)) \cup RangeOf(ProjSeq(outgoing)) :
            Count(df, x) = Count(ProjSeq(incoming), x) + Count(ProjSeq(outgoing), x)

DateLe(a, b) ==
    \/ a.y < b.y
    \/ a.y = b.y /\ a.m < b.m
    \/ a.y = b.y /\ a.m = b.m /\ a.d <= b.d

\* C3: for every input ordering, each partition is sorted non-decreasing by
\* Date.
C3_SortedByDate ==
    Processed =>
        /\ \A i \in 1..(Len(incoming) - 1) : DateLe(incoming[i].Date, incoming[i + 1].Date)
        /\ \A i \in 1..(Len(outgoing) - 1) : DateLe(outgoing[i].Date, outgoing[i + 1].Date)

\* two incoming rows given in descending date order come out ascending
C3_Witness ==
    /\ Processed
    /\ Len(rows) = 2 /\ rows[1].Date = d_2025_09_30 /\ rows[2].Date = d_01_09_2025
    /\ Len(incoming) = 2
    /\ incoming[1].Date = Date(2025, 9, 1) /\ incoming[2].Date = Date(2025, 9, 30)

\* what the extraction is to return for a table: the rows whose date string
\* gives a date, in order, a malformed amount replaced by 0.0
ExpectedAmount(cell) ==
    IF cell.t = "str" /\ IsDecimalText(CleanedText(cell.s)) THEN parse_number(cell) ELSE Zero

RECURSIVE ExpectedRows(_)
ExpectedRows(table) ==
    IF table = <<>> THEN <<>>
    ELSE LET r == Head(table)
             date == IF HasDateShape(r.Date) /\ OutOfCalendar(r.Date)
                     THEN None ELSE parse_date_smart(r.Date)
         IN  IF date.k = "date"
             THEN <<[Date |-> date, Detail |-> r.Detail, Amount |-> ExpectedAmount(r.Amount)]>>
                      \o ExpectedRows(Tail(table))
             ELSE ExpectedRows(Tail(table))

\* C9: in CSV extraction a field-level defect of one row never surfaces as
\* an error and never affects other rows: a row whose date string gives no
\* date is dropped, a malformed amount becomes 0.0, every other row is
\* returned, and each input row yields at most one transaction.
C9_FieldDefectsAreLocal ==
    pc \in {"extracted", "processed"} =>
        /\ ~csv_failed
        /\ df = ExpectedRows(rows)

FieldOk(text) ==
    /\ Len(text) <= 26
    /\ text # <<>> => text[1] \notin LowerSet /\ \A i \in 2..Len(text) : text[i] \notin UpperSet

\* C10: in both partitions Type, Invoice and Counterparty (when text) are at
\* most 26 characters long and in capitalized-first form, and none is null.
C10_TextFields ==
    Processed =>
        \A r \in RangeOf(incoming) \cup RangeOf(outgoing) :
            /\ FieldOk(r.Type)
            /\ FieldOk(r.Invoice)
            /\ r.Counterparty.t \in {"str", "int"}
            /\ r.Counterparty.t = "str" => FieldOk(r.Counterparty.s)

\* the 38-character company name of the description was cut to 26
C10_Witness ==
    /\ Processed
    /\ \E r \in RangeOf(outgoing) :
          /\ r.Detail = d_long_company
          /\ r.Counterparty.t = "str" /\ Len(r.Counterparty.s) = 26
          /\ r.Counterparty.s =
                <<"M", "e", "d", "i", "t", "e", "r", "r", "a", "n", "e", "a", "n", " ", "i", "n", "s", "u", "r", "a", "n", "c", "e", " ", "b", "r">>
          /\ r.Invoice = <<"I">> \o Tail(w_invoice) \o <<" ", "4", "1">>

\* the numeral of the number a digit string denotes
NumeralOf(x) == LET n == LStrip(x, {"0"}) IN IF n = <<>> THEN <<"0">> ELSE n

\* C11: the assembled Counterparty is a number exactly when the text
\* returned by extract_counterparty consists only of digits, and then it is
\* the number denoted by the whole digit string, of any length; otherwise it
\* stays text.
C11_NumberIffAllDigits ==
    Processed =>
        \A r \in RangeOf(incoming) \cup RangeOf(outgoing) :
            \A x \in {extract_counterparty(r.Detail)} :
                IF x # <<>> /\ \A i \in 1..Len(x) : x[i] \in Digits
                THEN r.Counterparty = [t |-> "int", numeral |-> NumeralOf(x)]
                ELSE r.Counterparty.t = "str"

\* the rows of rs that have the date d, in their order
OnDate(rs, d) == SelectSeq(rs, LAMBDA r : r.Date = d)

\* C12: the date sort of each partition is stable: rows of one partition
\* with equal Date are in the output in their relative order of the input.
C12_SortIsStable ==
    Processed =>
        \A d \in {df[i].Date : i \in 1..Len(df)} :
            /\ OnDate(ProjSeq(incoming), d)
                  = SelectSeq(OnDate(df, d), LAMBDA r : r.Amount.k = "num" /\ r.Amount.m >= 0)
            /\ OnDate(ProjSeq(outgoing), d)
                  = SelectSeq(OnDate(df, d), LAMBDA r : r.Amount.k = "num" /\ r.Amount.m < 0)

salary_row == [Date |-> d_2025_09_30, Detail |-> d_salary_example, Amount |-> StrCell(a_1500)]
abc_ltd == <<"A", "b", "c", " ", "l", "t", "d">>
salary_payment_abc_ltd == <<"S", "a", "l", "a", "r", "y", " ", "p", "a", "y", "m", "e", "n", "t", " ", "a", "b", "c", " ", "l", "t", "d">>

\* the text matched by the company pattern in the cleaned description
CompanyMatched(detail) ==
    The({The({IF m = <<>> THEN <<>> ELSE Slice(c, m[2], m[3]) : m \in {Search(re_company, c)}}) :
            c \in {Cleaned(detail)}})

\* C13: the row (2025/09/30, "SALARY PAYMENT ABC LTD REF: 12345", 1,500.00)
\* becomes one transaction, in Incoming, with date 2025-09-30, amount
\* 1500.00, category "Salary", empty invoice and counterparty "Abc ltd" or
\* the (capitalized) text matched by the company pattern.
C13_SalaryExample ==
    (Processed /\ rows = <<salary_row>>) =>
        /\ outgoing = <<>>
        /\ Len(incoming) = 1
        /\ incoming[1].Date = Date(2025, 9, 30)
        /\ incoming[1].Detail = d_salary_example
        /\ incoming[1].Amount = Num(1500, 0)
        /\ incoming[1].Type = <<"S">> \o Tail(w_salary)
        /\ incoming[1].Invoice = <<>>
        /\ incoming[1].Counterparty.t = "str"
        /\ incoming[1].Counterparty.s
              \in {abc_ltd, capitalize_first(CompanyMatched(d_salary_example))}

\* the example was processed; the counterparty is the whole company match
C13_Witness ==
    /\ Processed /\ rows = <<salary_row>>
    /\ Len(incoming) = 1
    /\ incoming[1].Counterparty = TextValue(salary_payment_abc_ltd)
    /\ incoming[1].Counterparty.s # abc_ltd

\* C16: extract_counterparty never raises and returns a string for every
\* input, so process_transactions always produces the counterparty field of
\* every row: it does not raise, and the field is a text or a number.
C16_CounterpartyAlwaysProduced ==
    /\ pc # "raised"
    /\ Processed =>
          \A r \in RangeOf(incoming) \cup RangeOf(outgoing) :
              r.Counterparty.t \in {"str", "int"}

(***************************************************************************)
(* Claims about extract_invoice and extract_counterparty.                  *)
(***************************************************************************)
HasAt(s, i, w) == i + Len(w) - 1 <= Len(s) /\ SubSeq(s, i, i + Len(w) - 1) = w

\* the position of the digit found after optional whitespace from j, 0 if none
DigitAfter(s, j) ==
    LET c == SpanEnd(s, j, Whitespace) IN IF c <= Len(s) /\ s[c] \in Digits THEN c ELSE 0

\* after fatt or fattura: optional whitespace, n, optional r
DigitAfterNr(s, j) ==
    LET b == SpanEnd(s, j, Whitespace)
    IN  IF b <= Len(s) /\ s[b] = "n"
        THEN (IF b + 1 <= Len(s) /\ s[b + 1] = "r" THEN DigitAfter(s, b + 2)
              ELSE DigitAfter(s, b + 1))
        ELSE 0

\* the positions of a first digit that follows an invoice token at position
\* i of the lower-cased description
InvoiceDigitsAt(low, i) ==
    {c \in { IF HasAt(low, i, w_invoice) THEN DigitAfter(low, i + 7) ELSE 0,
             IF HasAt(low, i, <<"i", "n", "v">>) THEN DigitAfter(low, i + 3) ELSE 0,
             IF HasAt(low, i, w_fatt) THEN DigitAfterNr(low, i + 4) ELSE 0,
             IF HasAt(low, i, w_fatt \o <<"u", "r", "a">>) THEN DigitAfterNr(low, i + 7) ELSE 0 } :
        c # 0}

InvoiceTokenStarts(detail) ==
    {i \in 1..Len(detail) : InvoiceDigitsAt(PyLower(detail), i) # {}}

\* the run of digits of s that starts at c
DigitRun(s, c) == SubSeq(s, c, SpanEnd(s, c, Digits) - 1)

InvDone == inv_out.k = "returned"
CpDone == cp_out.k = "returned"

\* C14: extract_invoice returns "invoice " followed by the digits that
\* follow the leftmost token (invoice, inv, or fatt/fattura with n/nr, in any
\* letter case) that is followed by digits, and the empty string when there
\* is no such token; it returns nothing else.
C14_InvoiceOfLeftmostToken ==
    InvDone =>
        LET starts == InvoiceTokenStarts(ext_in)
        IN  IF starts = {} THEN inv_out.v = <<>>
            ELSE \E i \in starts :
                    /\ \A h \in starts : i <= h
                    /\ \E c \in InvoiceDigitsAt(PyLower(ext_in), i) :
                          inv_out.v = w_invoice \o <<" ">> \o DigitRun(ext_in, c)

\* of two tokens followed by digits the left one, in upper case, is taken;
\* the token before them is not followed by digits
C14_Witness ==
    /\ InvDone
    /\ ext_in = x_two_tokens
    /\ inv_out.v = w_invoice \o <<" ", "5">>

\* the positions at which the tax marker is followed by whitespace and a digit
TaxMarkerStarts(detail) ==
    {i \in 1..Len(detail) :
        /\ HasAt(PyLower(detail), i, w_administratio)
        /\ i + 13 <= Len(detail) /\ detail[i + 13] \in Whitespace
        /\ DigitAfter(detail, i + 13) # 0}

\* C15: whenever the description contains the tax-administration marker
\* followed by a numeric reference, extract_counterparty returns exactly that
\* digit string, whatever else the description contains.
C15_TaxReferenceVerbatim ==
    (CpDone /\ TaxMarkerStarts(ext_in) # {}) =>
        \E i \in TaxMarkerStarts(ext_in) :
            /\ \A h \in TaxMarkerStarts(ext_in) : i <= h
            /\ cp_out.v = DigitRun(ext_in, DigitAfter(ext_in, i + 13))

\* the reference is returned although a titled name, a company suffix and a
\* boilerplate phrase are in the description
C15_Witness ==
    /\ CpDone
    /\ ext_in = x_tax_among_names
    /\ cp_out.v = <<"4", "2">>

(***************************************************************************)
(* Claims about main and the header line.                                  *)
(***************************************************************************)
\* the header names spell Date, Detail and Amount up to letter case and
\* surrounding whitespace
SpellsRequired(columns) ==
    \A c \in RequiredColumns :
        \E i \in 1..Len(columns) : PyLower(Strip(columns[i], Whitespace)) = PyLower(c)

Extracted == pc \in {"extracted", "processed", "raised", "exited"}

\* C18: a table whose header names spell Date, Detail and Amount in any
\* letter case and with any surrounding whitespace, other columns or not, is
\* processed: the DataFrame holds its dated rows, it is not rejected.
C18_HeaderSpellingIgnored ==
    (Extracted /\ file.exists /\ file.marker /\ SpellsRequired(file.columns))
        => df = extract_transactions_from_csv(rows).df

\* C19: a run of main exits with 1 when the file does not exist or the
\* extraction gave an empty DataFrame and with 0 in every other case, and
\* no spreadsheet is written when it exits with 1.
C19_ExitCodes ==
    pc = "exited" =>
        /\ exit_code = (IF ~file.exists \/ df = <<>> THEN Exit(1) ELSE Exit(0))
        /\ exit_code = Exit(1) => ~written

(***************************************************************************)
(* Claim about the independence of rows.                                   *)
(***************************************************************************)
DerivedFields(r) == <<r.Type, r.Invoice, r.Counterparty>>

\* C20: category, invoice reference and counterparty of a row are a
\* function of its description alone: they are the values the three
\* extractors give for that description, so two rows with the same
\* description have the same three fields whatever their date, amount,
\* partition and the other rows.
C20_DerivedFromDescriptionAlone ==
    Processed =>
        /\ \A r1, r2 \in RangeOf(incoming) \cup RangeOf(outgoing) :
              r1.Detail = r2.Detail => DerivedFields(r1) = DerivedFields(r2)
        /\ \A r \in RangeOf(incoming) \cup RangeOf(outgoing) :
              /\ r.Type = limit_length(capitalize_first(get_transaction_type(PyLower(r.Detail))))
              /\ r.Invoice = limit_length(capitalize_first(extract_invoice(r.Detail)))
              /\ r.Counterparty.t = "str" =>
                    r.Counterparty.s = limit_length(capitalize_first(extract_counterparty(r.Detail)))

\* the same description once incoming and once outgoing, on different
\* dates, with equal derived fields
C20_Witness ==
    /\ Processed
    /\ \E r1 \in RangeOf(incoming), r2 \in RangeOf(outgoing) :
          /\ r1.Detail = d_long_company /\ r2.Detail = d_long_company
          /\ r1.Date # r2.Date
          /\ DerivedFields(r1) = DerivedFields(r2)
          /\ r1.Invoice = <<"I", "n", "v", "o", "i", "c", "e", " ", "4", "1">>

(***************************************************************************)
(* extract_transactions_from_pdf (pdf_statement_processor.py:28-182): the  *)
(* patterns of the line scanner.  parse_date_smart and parse_number are    *)
(* imported by the adapter from common_categorization (lines 16-25); they  *)
(* are taken to be the functions of the same names of bov_categorization.  *)
(***************************************************************************)
\* line 57: r'Description\s+Incoming\s+Outgoing\s+Amount' (re.IGNORECASE)
re_header ==
    << Cat(<<LitI(<<"D", "e", "s", "c", "r", "i", "p", "t", "i", "o", "n">>), Plus(Ch(Whitespace)), LitI(<<"I", "n", "c", "o", "m", "i", "n", "g">>), Plus(Ch(Whitespace)),
             LitI(<<"O", "u", "t", "g", "o", "i", "n", "g">>), Plus(Ch(Whitespace)), LitI(<<"A", "m", "o", "u", "n", "t">>)>>) >>

\* line 63: r'(Opening Balance|Closing Balance|Total|Page \d+)' (re.IGNORECASE)
re_end_of_section ==
    << Alt(<<LitI(<<"O", "p", "e", "n", "i", "n", "g", " ", "B", "a", "l", "a", "n", "c", "e">>), LitI(<<"C", "l", "o", "s", "i", "n", "g", " ", "B", "a", "l", "a", "n", "c", "e">>), LitI(<<"T", "o", "t", "a", "l">>),
             Cat(<<LitI(<<"P", "a", "g", "e", " ">>), Plus(Ch(Digits))>>)>>) >>

\* (?:January|February|...|December)
re_month == Alt([m \in 1..12 |-> LitS(MonthNames[m])])

\* line 70: r'^(\d{1,2}\s+(?:January|...|December)\s+\d{4})\s+(.+)', as the
\* segments group 1, \s+, group 2
re_date_line ==
    << Cat(<<Rep(Ch(Digits), 1, 2), Plus(Ch(Whitespace)), re_month, Plus(Ch(Whitespace)),
             Rep(Ch(Digits), 4, 4)>>),
       Plus(Ch(Whitespace)),
       Plus(AnyChar) >>

\* line 120: r'^\d{1,2}\s+(?:January|...|December)'
re_date_prefix ==
    << Cat(<<Rep(Ch(Digits), 1, 2), Plus(Ch(Whitespace)), re_month>>) >>

\* line 86: r'Transaction:\s*[A-Z_]+-[a-f0-9-]{36}'
re_transaction_uuid ==
    << Cat(<<LitS(<<"T", "r", "a", "n", "s", "a", "c", "t", "i", "o", "n", ":">>), Star(Ch(Whitespace)), Plus(Ch(UpperSet \cup {"_"})), LitS(<<"-">>),
             Rep(Ch(Digits \cup {"a", "b", "c", "d", "e", "f", "-"}), 36, 36)>>) >>

\* line 87: r'Transaction:\s*[A-Z]+-\d{10}'
re_transaction_card ==
    << Cat(<<LitS(<<"T", "r", "a", "n", "s", "a", "c", "t", "i", "o", "n", ":">>), Star(Ch(Whitespace)), Plus(Ch(UpperSet)), LitS(<<"-">>),
             Rep(Ch(Digits), 10, 10)>>) >>

\* the replacement 'Transaction: [ID]' of lines 86-87
transaction_id == <<"T", "r", "a", "n", "s", "a", "c", "t", "i", "o", "n", ":", " ", "[", "I", "D", "]">>

\* line 93: r'[-]?\b(?:\d{1,3}(?:,\d{3})*|\d+)\.\d{2}\b'
re_amount ==
    << Cat(<<Opt(LitS(<<"-">>)), WordB,
             Alt(<<Cat(<<Rep(Ch(Digits), 1, 3), Star(Cat(<<LitS(<<",">>), Rep(Ch(Digits), 3, 3)>>))>>),
                   Plus(Ch(Digits))>>),
             LitS(<<".">>), Rep(Ch(Digits), 2, 2), WordB>>) >>

\* re.match(pattern, s): the path of the match at the start of s, or <<>>
ReMatch(segs, s) == The({FirstPath(segs, t, 1) : t \in {s}})

\* re.findall(pattern, s) for a pattern without groups: the texts of the
\* non-overlapping matches, left to right
RECURSIVE FindAllFrom(_, _, _)
FindAllFrom(segs, s, from) ==
    The({IF path = <<>> \/ path[Len(path)] = path[1] THEN <<>>
         ELSE <<Slice(s, path[1], path[Len(path)])>> \o FindAllFrom(segs, s, path[Len(path)]) :
            path \in {SearchFrom(segs, s, from)}})

FindAll(segs, s) == The({FindAllFrom(segs, t, 1) : t \in {s}})

\* lines 126-128: every amount text is replaced by '' in turn (str.replace)
RECURSIVE WithoutAmounts(_, _)
WithoutAmounts(desc_part, amounts) ==
    IF amounts = <<>> THEN desc_part
    ELSE WithoutAmounts(ReSub(<<LitS(Head(amounts))>>, <<>>, desc_part), Tail(amounts))

\* mutant: the last amount of the line is read as the amount
AmountsRead_last_amount(amounts) ==
    IF Len(amounts) >= 2
    THEN The({IF StartsWith(amounts[Len(amounts)], "-")
              THEN [incoming |-> None, outgoing |-> (IF LtZero(a) THEN Neg(a) ELSE a)]
              ELSE [incoming |-> (IF LtZero(a) THEN Neg(a) ELSE a), outgoing |-> None] :
                 a \in {parse_number(StrCell(amounts[Len(amounts)]))}})
    ELSE [incoming |-> None, outgoing |-> None]
\* lines 95-116: the incoming and the outgoing amount read from the amounts
\* of the line: the last one is the balance, the one before it the amount
AmountsRead(amounts) ==
    IF Len(amounts) >= 2
    THEN The({IF StartsWith(amounts[Len(amounts) - 1], "-")
              THEN [incoming |-> None, outgoing |-> (IF LtZero(a) THEN Neg(a) ELSE a)]
              ELSE [incoming |-> (IF LtZero(a) THEN Neg(a) ELSE a), outgoing |-> None] :
                 a \in {parse_number(StrCell(amounts[Len(amounts) - 1]))}})
    ELSE [incoming |-> None, outgoing |-> None]

\* lines 118-123: the pending line and a blank go before the description,
\* unless the pending line starts like a date line
DescriptionPrefix(previous) ==
    IF previous # <<>> /\ ReMatch(re_date_prefix, previous) = <<>>
    THEN previous \o <<" ">> ELSE <<>>

\* lines 77-137 on a date line (date_match is its match): the transaction
\* that the line starts, its description not yet prefixed
LineTransaction(line, date_match) ==
    The({The({[Date |-> parse_date_smart(Slice(line, date_match[1], date_match[2])),
               description |-> Strip(WithoutAmounts(clean_line, amounts), Whitespace),
               incoming |-> AmountsRead(amounts).incoming,
               outgoing |-> AmountsRead(amounts).outgoing,
               balance |-> IF amounts = <<>> THEN None
                           ELSE parse_number(StrCell(amounts[Len(amounts)]))] :
                 amounts \in {FindAll(re_amount, clean_line)}}) :
            clean_line \in {ReSub(re_transaction_card, transaction_id,
                                  ReSub(re_transaction_uuid, transaction_id,
                                        Slice(line, date_match[3], date_match[4])))}})

\* what the tests of lines 52-70 and 120 find in one line of the text
Scanned(raw) ==
    The({The({[line |-> line,
               is_header |-> Search(re_header, line) # <<>>,
               is_end |-> Search(re_end_of_section, line) # <<>>,
               is_date |-> date_match # <<>>,
               prefix |-> DescriptionPrefix(line),
               transaction |-> IF date_match # <<>> THEN LineTransaction(line, date_match) ELSE None] :
                 date_match \in {ReMatch(re_date_line, line)}}) :
            line \in {Strip(raw, Whitespace)}})

\* a float compared with 0 by > (false for nan)
GtZero(f) == (f.k = "num" /\ f.m > 0) \/ (f.k = "inf" /\ ~f.neg)

\* lines 151-161: trans.get(...) or 0, then the signed amount
OrZero(x) == IF x = None \/ x = Zero THEN Zero ELSE x
SignedAmount(trans) ==
    IF GtZero(OrZero(trans.incoming)) THEN OrZero(trans.incoming)
    ELSE IF GtZero(OrZero(trans.outgoing)) THEN Neg(OrZero(trans.outgoing))
    ELSE Zero

\* lines 147-169: the rows of the transactions that have a date and a
\* description
RECURSIVE ResultRows(_)
ResultRows(ts) ==
    IF ts = <<>> THEN <<>>
    ELSE (IF Head(ts).Date.k = "date" /\ Strip(Head(ts).description, Whitespace) # <<>>
          THEN <<[Date |-> Head(ts).Date,
                  Detail |-> Strip(Head(ts).description, Whitespace),
                  Amount |-> SignedAmount(Head(ts))]>>
          ELSE <<>>)
         \o ResultRows(Tail(ts))

(***************************************************************************)
(* Bounds and input sets of the PDF adapter, and the specification of one  *)
(* call of extract_transactions_from_pdf on the lines of the text of the   *)
(* document: the loop of lines 50-141 reads one line per step, the code    *)
(* after the loop (lines 143-182) builds the returned rows.                *)
(***************************************************************************)
MaxLines == 5
MaxDetailedLines == 2

\* "Date Description Incoming Outgoing Amount"
p_header ==
    <<"D", "a", "t", "e", " ", "D", "e", "s", "c", "r", "i", "p", "t", "i", "o", "n", " ", "I", "n", "c", "o", "m", "i", "n", "g", " ", "O", "u", "t", "g", "o", "i", "n", "g", " ", "A", "m", "o", "u", "n", "t">>
\* "Closing Balance 100.00"
p_closing ==
    <<"C", "l", "o", "s", "i", "n", "g", " ", "B", "a", "l", "a", "n", "c", "e", " ", "1", "0", "0", ".", "0", "0">>
\* "30 September 2025 Coffee shop -12.50 100.00"
p_out ==
    <<"3", "0", " ", "S", "e", "p", "t", "e", "m", "b", "e", "r", " ", "2", "0", "2", "5", " ", "C", "o", "f", "f", "e", "e", " ", "s", "h", "o", "p", " ", "-", "1", "2", ".", "5", "0", " ", "1", "0", "0", ".", "0", "0">>
\* "2 September 2025 Salary ABC Ltd 1,500.00 1,600.00"
p_in ==
    <<"2", " ", "S", "e", "p", "t", "e", "m", "b", "e", "r", " ", "2", "0", "2", "5", " ", "S", "a", "l", "a", "r", "y", " ", "A", "B", "C", " ", "L", "t", "d", " ", "1", ",", "5", "0", "0", ".", "0", "0", " ", "1", ",", "6", "0", "0", ".", "0", "0">>
\* "ACME Store"
p_text ==
    <<"A", "C", "M", "E", " ", "S", "t", "o", "r", "e">>
\* "Branch 12"
p_text2 ==
    <<"B", "r", "a", "n", "c", "h", " ", "1", "2">>
\* "Page 2"
p_page ==
    <<"P", "a", "g", "e", " ", "2">>
\* "  "
p_blank ==
    <<" ", " ">>
\* "1 September 2025 Card check 100.00"
p_balance_only ==
    <<"1", " ", "S", "e", "p", "t", "e", "m", "b", "e", "r", " ", "2", "0", "2", "5", " ", "C", "a", "r", "d", " ", "c", "h", "e", "c", "k", " ", "1", "0", "0", ".", "0", "0">>
\* "3 September 2025"
p_bare_date ==
    <<"3", " ", "S", "e", "p", "t", "e", "m", "b", "e", "r", " ", "2", "0", "2", "5">>
\* "4 September 2025 -5.00 95.00"
p_amounts_only ==
    <<"4", " ", "S", "e", "p", "t", "e", "m", "b", "e", "r", " ", "2", "0", "2", "5", " ", "-", "5", ".", "0", "0", " ", "9", "5", ".", "0", "0">>
\* "31 September 2025 Ghost -1.00 99.00"
p_no_such_day ==
    <<"3", "1", " ", "S", "e", "p", "t", "e", "m", "b", "e", "r", " ", "2", "0", "2", "5", " ", "G", "h", "o", "s", "t", " ", "-", "1", ".", "0", "0", " ", "9", "9", ".", "0", "0">>
\* "7 September 2025 Shop Transaction: CARD-1234567890 -3.00 47.00"
p_card ==
    <<"7", " ", "S", "e", "p", "t", "e", "m", "b", "e", "r", " ", "2", "0", "2", "5", " ", "S", "h", "o", "p", " ", "T", "r", "a", "n", "s", "a", "c", "t", "i", "o", "n", ":", " ", "C", "A", "R", "D", "-", "1", "2", "3", "4", "5", "6", "7", "8", "9", "0", " ", "-", "3", ".", "0", "0", " ", "4", "7", ".", "0", "0">>
\* "6 September 2025 Fee waiver -0.00 50.00"
p_neg_zero ==
    <<"6", " ", "S", "e", "p", "t", "e", "m", "b", "e", "r", " ", "2", "0", "2", "5", " ", "F", "e", "e", " ", "w", "a", "i", "v", "e", "r", " ", "-", "0", ".", "0", "0", " ", "5", "0", ".", "0", "0">>
\* "5 September 2025 Total Energies -50.00 50.00"
p_total_word ==
    <<"5", " ", "S", "e", "p", "t", "e", "m", "b", "e", "r", " ", "2", "0", "2", "5", " ", "T", "o", "t", "a", "l", " ", "E", "n", "e", "r", "g", "i", "e", "s", " ", "-", "5", "0", ".", "0", "0", " ", "5", "0", ".", "0", "0">>
\* "8 September 2025 Refund 2.00 -4.00 46.00"
p_three_amounts ==
    <<"8", " ", "S", "e", "p", "t", "e", "m", "b", "e", "r", " ", "2", "0", "2", "5", " ", "R", "e", "f", "u", "n", "d", " ", "2", ".", "0", "0", " ", "-", "4", ".", "0", "0", " ", "4", "6", ".", "0", "0">>

\* "3 September payment"
p_day_month_text ==
    <<"3", " ", "S", "e", "p", "t", "e", "m", "b", "e", "r", " ", "p", "a", "y", "m", "e", "n", "t">>

\* the lines of the long texts: marker lines, two date lines, a text line
CoreLines == {p_header, p_closing, p_out, p_in, p_text}

\* the lines of the short texts
DetailedLines ==
    CoreLines \cup
    { p_text2, p_page, p_blank, p_balance_only, p_bare_date, p_amounts_only, p_no_such_day,
      p_card, p_neg_zero, p_total_word, p_three_amounts, p_day_month_text }

\* a text read after its first header line
AfterHeader(ls) == <<p_header>> \o ls

\* further texts: two pending lines before a date line, a pending line
\* before a line of amounts only, a block closed by a page footer
PdfExamples ==
    { <<p_header, p_text, p_text2, p_out>>,
      <<p_header, p_text2, p_blank, p_text, p_amounts_only, p_in>>,
      <<p_header, p_card, p_text, p_page, p_text2, p_header, p_three_amounts>> }

PdfTexts ==
    SeqsUpTo(CoreLines, MaxLines)
    \cup {AfterHeader(ls) : ls \in SeqsUpTo(DetailedLines, MaxDetailedLines)}
    \cup PdfExamples

\* the tests of the scanner on every line tried, computed once
ScanTable == {<<l, Scanned(l)>> : l \in DetailedLines}
ScannedOf(raw) == (CHOOSE e \in ScanTable : e[1] = raw)[2]
PrefixOf(previous) ==
    IF previous = <<>> THEN <<>>
    ELSE (CHOOSE e \in ScanTable : e[2].line = previous)[2].prefix

InitPdf ==
    /\ lines \in PdfTexts
    /\ cursor = 1
    /\ in_transactions = FALSE
    /\ current_transaction = None
    /\ previous_line = <<>>
    /\ transactions = <<>>
    /\ result = NoResult
    /\ NumIdle
    /\ DateIdle
    /\ DetIdle
    /\ ProcIdle
    /\ ExtIdle
    /\ MainIdle

\* mutant: the open transaction is kept only while the cursor is in a block
Flushed_inside_only(ts, trans) ==
    IF in_transactions /\ trans # None /\ trans.description # <<>> THEN Append(ts, trans) ELSE ts
\* lines 73-75 and 143-145: the open transaction is kept if it has a description
Flushed(ts, trans) ==
    IF trans # None /\ trans.description # <<>> THEN Append(ts, trans) ELSE ts

\* one turn of the loop of lines 50-141 on the line under the cursor
ReadLine ==
    /\ result = NoResult
    /\ cursor <= Len(lines)
    /\ cursor' = cursor + 1
    /\ \E sc \in {ScannedOf(lines[cursor])} :
          IF sc.line = <<>>                             \* lines 52-54: blank
          THEN UNCHANGED <<in_transactions, current_transaction, previous_line, transactions>>
          ELSE IF sc.is_header                          \* lines 56-60
          THEN /\ in_transactions' = TRUE
               /\ previous_line' = <<>>
               /\ UNCHANGED <<current_transaction, transactions>>
          ELSE IF in_transactions /\ sc.is_end          \* lines 62-65
          THEN /\ in_transactions' = FALSE
               /\ UNCHANGED <<current_transaction, previous_line, transactions>>
          ELSE IF in_transactions /\ sc.is_date         \* lines 72-138
          THEN /\ transactions' = Flushed(transactions, current_transaction)
               /\ current_transaction' =
                     [sc.transaction EXCEPT !.description = PrefixOf(previous_line) \o @]
               /\ previous_line' = <<>>
               /\ UNCHANGED in_transactions
          ELSE IF in_transactions                       \* lines 139-141
          THEN /\ previous_line' = sc.line
               /\ UNCHANGED <<in_transactions, current_transaction, transactions>>
          ELSE UNCHANGED <<in_transactions, current_transaction, previous_line, transactions>>
    /\ UNCHANGED <<lines, result, numVars, dateVars, detVars, procVars, extVars, mainVars>>

\* lines 143-182: the last transaction is added and the rows are returned
ReturnRows ==
    /\ result = NoResult
    /\ cursor = Len(lines) + 1
    /\ transactions' = Flushed(transactions, current_transaction)
    /\ result' = Returned(ResultRows(transactions'))
    /\ UNCHANGED <<lines, cursor, in_transactions, current_transaction, previous_line,
                   numVars, dateVars, detVars, procVars, extVars, mainVars>>

NextPdf == ReadLine \/ ReturnRows

SpecPdf == InitPdf /\ [][NextPdf]_vars

(***************************************************************************)
(* Claims about the layers of extract_counterparty.                        *)
(***************************************************************************)
\* the text of group 1 of the leftmost match of pattern in text, <<>> if none
GroupOf(pattern, text) ==
    The({IF m = <<>> THEN <<>> ELSE Slice(text, m[2], m[3]) : m \in {Search(pattern, text)}})

\* the text of the leftmost match of pattern in text, <<>> if none
MatchOf(pattern, text) ==
    The({IF m = <<>> THEN <<>> ELSE Slice(text, m[1], m[Len(m)]) : m \in {Search(pattern, text)}})

\* the result of the first layer that succeeds, the company layer reading
\* the text c and the later layers the text t
FirstLayer(c, t) ==
    IF GroupOf(re_company, c) # <<>> THEN GroupOf(re_company, c)
    ELSE IF MatchOf(re_person, t) # <<>> THEN MatchOf(re_person, t)
    ELSE IF GroupOf(re_upper, t) # <<>> THEN GroupOf(re_upper, t)
    ELSE IF GroupOf(re_capitalized, t) # <<>> THEN GroupOf(re_capitalized, t)
    ELSE Strip(Phrase(FirstN(PySplit(t), 5)), Whitespace)

\* the description reaches the layers: it is not empty and holds no tax reference
ReachesLayers == CpDone /\ ext_in # <<>> /\ TaxRef(ext_in) = <<>>

PhraseEntries == 1..17

\* the leftmost occurrence of entry k in text, as <<from, to>> (to excluded),
\* <<>> if there is none
OccurrenceOf(k, text) ==
    The({IF m = <<>> THEN <<>> ELSE <<m[1], m[Len(m)]>> :
            m \in {Search(patterns_to_remove[k], text)}})

\* the occurrence o lies inside a longer occurrence of another entry
InsideLonger(o, text) ==
    \E j \in 1..Len(patterns_to_remove) :
        /\ OccurrenceOf(j, text) # <<>>
        /\ OccurrenceOf(j, text)[1] <= o[1] /\ o[2] <= OccurrenceOf(j, text)[2]
        /\ OccurrenceOf(j, text)[2] - OccurrenceOf(j, text)[1] > o[2] - o[1]

\* text without its characters from o[1] to o[2] - 1
CutOut(text, o) == Slice(text, 1, o[1]) \o Slice(text, o[2], Len(text) + 1)

\* entry k occurs in the description, outside any longer entry, and the text
\* handed to the layers still holds characters of that occurrence
LeavesPartOf(k, text) ==
    /\ OccurrenceOf(k, text) # <<>>
    /\ ~InsideLonger(OccurrenceOf(k, text), text)
    /\ Cleaned(text) # Cleaned(CutOut(text, OccurrenceOf(k, text)))

\* C22: every listed phrase that occurs in a description is removed whole
\* from the text handed to the layers, whatever other listed phrases were
\* removed before it: the text is the one the description without that
\* occurrence gives.
C22_WholePhraseRemoved ==
    CpDone => \A k \in PhraseEntries : ~LeavesPartOf(k, ext_in)

(***************************************************************************)
(* Claims about the PDF adapter.  The lines of the text are classified as  *)
(* the scanner classifies them; k is the index of a line.                  *)
(***************************************************************************)
\* the lines of the text as the scanner classifies them
ScannedLines == [k \in 1..Len(lines) |-> ScannedOf(lines[k])]

\* In the definitions below t is ScannedLines and k the index of a line.
HeaderAt(t, k) == t[k].is_header
\* an end marker line (a line that is also a header line is read as header)
EndAt(t, k) == ~t[k].is_header /\ t[k].is_end

\* the cursor is inside a block when line k is read: the last marker line
\* before k is a header line
InsideBefore(t, k) ==
    \E h \in 1..(k - 1) :
        HeaderAt(t, h) /\ \A j \in (h + 1)..(k - 1) : ~HeaderAt(t, j) /\ ~EndAt(t, j)

\* line k matches the date pattern and is read inside a block
DateLineInBlock(t, k) == t[k].is_date /\ InsideBefore(t, k)

\* line k starts a transaction: a date line in a block that is no marker line
StartsAt(t, k) ==
    t[k].is_date /\ ~t[k].is_header /\ ~t[k].is_end /\ InsideBefore(t, k)

\* line k is held as pending line
HeldAt(t, k) ==
    /\ t[k].line # <<>> /\ ~t[k].is_header /\ ~t[k].is_end /\ ~t[k].is_date
    /\ InsideBefore(t, k)

\* line k empties the pending line
ResetAt(t, k) == HeaderAt(t, k) \/ StartsAt(t, k)

\* the last line before line k that is held or empties the pending line, 0
\* if there is none
LastEvent(t, k) ==
    CHOOSE e \in 0..(k - 1) :
        /\ e = 0 \/ HeldAt(t, e) \/ ResetAt(t, e)
        /\ \A j \in (e + 1)..(k - 1) : ~HeldAt(t, j) /\ ~ResetAt(t, j)

\* the pending line when line k is read: the last line held since the last
\* header line or start of a transaction
PendingBefore(t, k) ==
    The({IF e # 0 /\ HeldAt(t, e) THEN t[e].line ELSE <<>> : e \in {LastEvent(t, k)}})

\* the description of the transaction that line k starts
DescriptionAt(t, k) == PrefixOf(PendingBefore(t, k)) \o t[k].transaction.description

\* the transaction of line k has a description and a date
GivesRow(t, k) ==
    /\ t[k].transaction.Date.k = "date"
    /\ Strip(DescriptionAt(t, k), Whitespace) # <<>>

\* the indices in 1..n that satisfy Test, in order
Indices(n, Test(_)) == SelectSeq([k \in 1..n |-> k], Test)

DatesOf(rs) == [n \in 1..Len(rs) |-> rs[n].Date]
DatesAt(t, ks) == [n \in 1..Len(ks) |-> t[ks[n]].transaction.Date]

\* C23: every line that matches the date pattern and is read inside a block,
\* with a description and a parseable date, gives exactly one row, the rows
\* stand in the order of their lines, and no other line gives a row.
C23_OneRowPerDateLine ==
    result # NoResult =>
        \A t \in {ScannedLines} :
            DatesOf(result.v) =
                DatesAt(t, Indices(Len(t), LAMBDA k : DateLineInBlock(t, k) /\ GivesRow(t, k)))

\* the lines that start with a day, a month name and a year
FullDateLines == {l \in DetailedLines : ReMatch(<<re_date_line[1]>>, Strip(l, Whitespace)) # <<>>}

\* line k is a header line or a date line of a block
HeaderOrDateAt(t, k) ==
    HeaderAt(t, k) \/ (~EndAt(t, k) /\ lines[k] \in FullDateLines /\ InsideBefore(t, k))

\* the last line before k that is no date line and was read in the block of
\* line k since the last header line or date line, <<>> if there is none
LastTextBefore(t, k) ==
    The({IF e # 0 /\ ~HeaderOrDateAt(t, e) THEN t[e].line ELSE <<>> :
            e \in {CHOOSE e \in 0..(k - 1) :
                      /\ e = 0 \/ HeldAt(t, e) \/ HeaderOrDateAt(t, e)
                      /\ \A j \in (e + 1)..(k - 1) : ~HeldAt(t, j) /\ ~HeaderOrDateAt(t, j)}})

\* the last line before line k that starts a transaction, 0 if there is none
LastStart(t, k) ==
    CHOOSE r \in 0..(k - 1) :
        (r = 0 \/ StartsAt(t, r)) /\ \A j \in (r + 1)..(k - 1) : ~StartsAt(t, j)

\* C24: the description of a transaction is the last line that is no date
\* line read in its block since the last date line or header line, a blank
\* and the text of its own line, or the text of its own line alone if there
\* was no such line.
C24_PrefixIsLastTextLine ==
    current_transaction # None =>
        \A t \in {ScannedLines} : \A k \in {LastStart(t, cursor)} :
            \A text \in {LastTextBefore(t, k)} :
                current_transaction.description =
                    (IF text = <<>> THEN <<>> ELSE text \o <<" ">>)
                    \o t[k].transaction.description

\* the transactions started by the lines before line k that have a
\* description, in order
StartedBefore(t, k) ==
    The({[n \in 1..Len(ks) |-> [t[ks[n]].transaction EXCEPT !.description = DescriptionAt(t, ks[n])]] :
            ks \in {Indices(k - 1, LAMBDA j : StartsAt(t, j) /\ DescriptionAt(t, j) # <<>>)}})

\* C25: an end marker line read inside a block puts the cursor outside until
\* the next header line; outside, no line starts a transaction or changes
\* the pending line; the transaction open when the block ended is kept and
\* is emitted exactly once, by the next date line of a later block or at the
\* end of the text.
C25_EndMarkerClosesBlock ==
    \A t \in {ScannedLines} :
        /\ in_transactions = InsideBefore(t, cursor)
        /\ previous_line = PendingBefore(t, cursor)
        /\ result = NoResult =>
              transactions \o (IF current_transaction # None /\ current_transaction.description # <<>>
                               THEN <<current_transaction>> ELSE <<>>) = StartedBefore(t, cursor)
        /\ result # NoResult =>
              DatesOf(result.v) =
                  DatesAt(t, Indices(Len(t), LAMBDA k : StartsAt(t, k) /\ GivesRow(t, k)))

\* a block closed by an end marker with a transaction open, then a second
\* block: both transactions are returned, each once
C25_Witness ==
    /\ lines = <<p_header, p_out, p_closing, p_header, p_in>>
    /\ result # NoResult
    /\ DatesOf(result.v) = <<Date(2025, 9, 30), Date(2025, 9, 2)>>

\* the amount texts of a line, and the decimal number that one denotes
AmountTexts == {<<l, FindAll(re_amount, Strip(l, Whitespace))>> : l \in DetailedLines}
AmountTextsOf(l) == (CHOOSE e \in AmountTexts : e[1] = l)[2]
Magnitude(text) == PyFloat(RemoveChars(text, {"-", ","}))

\* the amount stated for a line with the amount texts ts: the one before the
\* last, negative when it starts with a minus sign, 0 if there are not two
StatedAmount(ts) ==
    IF Len(ts) < 2 THEN Zero
    ELSE IF StartsWith(ts[Len(ts) - 1], "-") THEN Neg(Magnitude(ts[Len(ts) - 1]))
    ELSE Magnitude(ts[Len(ts) - 1])

ReturnedLabels == {get_transaction_type(d) : d \in DetailStrings}

\* the tests whose label is returned for none of the descriptions
NeverReturned == {i \in 1..Len(RuleTable) : RuleTable[i].label \notin ReturnedLabels}

\* C27: for every test of the chain there is a description for which
\* get_transaction_type returns the label of that test: no test is hidden
\* by the tests before it.
C27_EveryRuleReachable ==
    det_out # NoResult => NeverReturned = {}

====
